---------------------------- MODULE Spec2Model ----------------------------
(***************************************************************************)
(* Ingredient safety classification and formula compliance of the          *)
(* vita-choice backend (ingredients/models.py, ingredients/serializers.py, *)
(* ingredients/views.py).                                                  *)
(*                                                                         *)
(* Texts are sequences of one-character strings, so that lower() and the   *)
(* substring test `in` are computed character by character.                *)
(***************************************************************************)
EXTENDS Integers, Sequences, FiniteSets, TLC

VARIABLES
    safety,         \* Ingredient.safety of the ingredient being classified
    level,          \* the last value read from Ingredient.safety_level, or "NONE"
    edits,          \* the number of edits made to the safety text
    formulas,       \* the Formula table: a set of rows [id, owner, region, description]
    items,          \* the FormulaItem table: a set of rows
    nextFormulaId,  \* the Formula table's auto-increment id
    nextItemId,     \* the FormulaItem table's auto-increment id
    response,       \* the response of the last request
    products,       \* the Product table: a set of rows [id, name]
    nextProductId,  \* the number of Product rows ever created (the rows' keys)
    cache,          \* the cache entry "product_list_cache": <<>> when absent
    inflight        \* the add_ingredient requests that are handled step by step

vars == <<safety, level, edits, formulas, items, nextFormulaId, nextItemId, response,
          products, nextProductId, cache, inflight>>

classifyVars == <<safety, level, edits>>
apiVars == <<formulas, items, nextFormulaId, nextItemId, response>>
productVars == <<products, nextProductId, cache>>

----------------------------------------------------------------------------
(* Bounds *)

\* the number of fragments a safety text is typed from
MaxFragments == 3
\* the number of formulas ever created
MaxFormulaId == 2
\* the number of formula items ever created, over all formulas
MaxItemId == 2
\* the number of formula items ever created, when one formula is looked at
MaxFormulaItems == 4

\* rows written through the ORM into the formula of the total weight
MaxWeightItems == 3
\* the number of products ever created
MaxProductId == 2
\* the number of formula items and of formulas ever created, when one formula
\* and its copies are looked at
MaxCopyItems == 4
MaxCopyFormulaId == 2
\* the number of formula items ever created, when the items of one formula are
\* updated
MaxEditItems == 3
\* the number of add_ingredient requests that are handled at the same time
MaxRequests == 2

----------------------------------------------------------------------------
(* str.lower() and the substring operator `in` *)

UpperCase ==
    ("A" :> "a") @@ ("B" :> "b") @@ ("C" :> "c") @@ ("D" :> "d") @@ ("E" :> "e") @@
    ("F" :> "f") @@ ("G" :> "g") @@ ("H" :> "h") @@ ("I" :> "i") @@ ("J" :> "j") @@
    ("K" :> "k") @@ ("L" :> "l") @@ ("M" :> "m") @@ ("N" :> "n") @@ ("O" :> "o") @@
    ("P" :> "p") @@ ("Q" :> "q") @@ ("R" :> "r") @@ ("S" :> "s") @@ ("T" :> "t") @@
    ("U" :> "u") @@ ("V" :> "v") @@ ("W" :> "w") @@ ("X" :> "x") @@ ("Y" :> "y") @@
    ("Z" :> "z")

\* the character U+212A KELVIN SIGN, the one character outside ASCII whose
\* lowercase form is an ASCII letter: str.lower() turns it into "k"
KelvinSign == "U+212A"

\* str.lower(): every cased character is replaced by its lowercase form
lower(s) ==
    [i \in 1..Len(s) |-> IF s[i] \in DOMAIN UpperCase THEN UpperCase[s[i]]
                         ELSE IF s[i] = KelvinSign THEN "k"
                         ELSE s[i]]

\* `word in s`: word occurs in s as a contiguous, case-sensitive substring
In(word, s) ==
    \E i \in 0..(Len(s) - Len(word)) : SubSeq(s, i + 1, i + Len(word)) = word

\* any(word in s for word in words)
AnyIn(words, s) == \E k \in 1..Len(words) : In(words[k], s)

----------------------------------------------------------------------------
(* Ingredient.safety_level *)

SAFE_WORD == <<"g","e","n","e","r","a","l"," ","d","i","e","t","a","r","y"," ","u","s","e">>

CAUTION_WORDS == <<
    <<"c","a","u","t","i","o","n">>,
    <<"t","o","p","i","c","a","l">>,
    <<"e","x","t","e","r","n","a","l">>,
    <<"p","r","o","c","e","s","s","i","n","g"," ","r","e","q","u","i","r","e","d">>,
    <<"a","l","k","a","l","o","i","d","s">> >>

RISK_WORDS == <<
    <<"r","e","s","t","r","i","c","t","e","d">>,
    <<"c","o","n","t","r","o","l","l","e","d">>,
    <<"h","i","g","h","-","r","i","s","k">> >>

Levels == {"SAFE", "CAUTION", "RISK", "UNKNOWN"}

\* faulty variant: the CAUTION rule is tried before the SAFE rule
safety_level_caution_first(text) ==
    LET safety_lower == lower(text) IN
    IF AnyIn(CAUTION_WORDS, safety_lower) THEN "CAUTION"
    ELSE IF In(SAFE_WORD, safety_lower) THEN "SAFE"
    ELSE IF AnyIn(RISK_WORDS, safety_lower) THEN "RISK"
    ELSE "UNKNOWN"

\* faulty variant: the RISK rule is tried before the CAUTION rule
safety_level_risk_first(text) ==
    LET safety_lower == lower(text) IN
    IF In(SAFE_WORD, safety_lower) THEN "SAFE"
    ELSE IF AnyIn(RISK_WORDS, safety_lower) THEN "RISK"
    ELSE IF AnyIn(CAUTION_WORDS, safety_lower) THEN "CAUTION"
    ELSE "UNKNOWN"

\* faulty variant: the keywords are looked up in the text as typed, without lower()
safety_level_case_sensitive(text) ==
    IF In(SAFE_WORD, text) THEN "SAFE"
    ELSE IF AnyIn(CAUTION_WORDS, text) THEN "CAUTION"
    ELSE IF AnyIn(RISK_WORDS, text) THEN "RISK"
    ELSE "UNKNOWN"

\* Ingredient.safety_level: the first rule that matches decides
safety_level(text) ==
    LET safety_lower == lower(text) IN
    IF In(SAFE_WORD, safety_lower) THEN "SAFE"
    ELSE IF AnyIn(CAUTION_WORDS, safety_lower) THEN "CAUTION"
    ELSE IF AnyIn(RISK_WORDS, safety_lower) THEN "RISK"
    ELSE "UNKNOWN"

----------------------------------------------------------------------------
(* Classification of typed safety texts *)

\* pieces a safety text is typed from: every keyword in some casing, the SAFE
\* keyword also in two pieces, and a near miss of "high-risk"
Fragments == {
    <<"G","E","N","E","R","A","L"," ","D","I","E","T","A","R","Y"," ","U","S","E">>,
    <<"G","e","n","e","r","a","l"," ","d","i","e","t","a","r","y">>,
    <<" ","U","s","e">>,
    <<"C","a","u","t","i","o","n">>,
    <<"t","o","p","i","c","a","l">>,
    <<"E","x","t","e","r","n","a","l">>,
    <<"p","r","o","c","e","s","s","i","n","g"," ","r","e","q","u","i","r","e","d">>,
    <<"A","l","k","a","l","o","i","d","s">>,
    <<"R","e","s","t","r","i","c","t","e","d">>,
    <<"c","o","n","t","r","o","l","l","e","d">>,
    <<"H","i","g","h","-","R","i","s","k">>,
    <<"h","i","g","h"," ","r","i","s","k">> }

InitClassify ==
    /\ safety = <<>>
    /\ level = "NONE"
    /\ edits = 0

\* the catalog maintainer extends the ingredient's safety text
EditSafety(frag) ==
    /\ edits < MaxFragments
    /\ safety' = safety \o frag
    /\ level' = "NONE"
    /\ edits' = edits + 1
    /\ UNCHANGED <<apiVars, productVars, inflight>>

\* a reader evaluates the safety_level property of the ingredient
ReadSafetyLevel ==
    /\ level = "NONE"
    /\ level' = safety_level(safety)
    /\ UNCHANGED <<safety, edits>>
    /\ UNCHANGED <<apiVars, productVars, inflight>>

----------------------------------------------------------------------------
(* The tables *)

\* the users that send requests
Users == {"testuser", "otheruser"}

\* the Ingredient table (read-only through the API): one row per safety tier,
\* with the names and safety texts the repository's tests use
Ingredient ==
    (1 :> [name |-> "Vitamin C", category |-> "Vitamins",
           safety |-> <<"G","e","n","e","r","a","l"," ","d","i","e","t","a","r","y"," ","u","s","e">>]) @@
    (2 :> [name |-> "Ginseng Extract", category |-> "Herbs",
           safety |-> <<"U","s","e"," ","w","i","t","h"," ","c","a","u","t","i","o","n"," ","d","u","r","i","n","g"," ","p","r","e","g","n","a","n","c","y">>]) @@
    (3 :> [name |-> "Controlled Substance", category |-> "Other",
           safety |-> <<"R","e","s","t","r","i","c","t","e","d"," ","u","s","e"," ","o","n","l","y">>]) @@
    (4 :> [name |-> "Unknown Safety Ingredient", category |-> "Other",
           safety |-> <<"S","o","m","e"," ","o","t","h","e","r"," ","s","a","f","e","t","y"," ","i","n","f","o","r","m","a","t","i","o","n">>])

IngredientIds == DOMAIN Ingredient

\* ingredient ids that are in no row of the Ingredient table
MissingIngredientIds == {99}

\* ORDER BY ingredient__name: the names of the Ingredient table in ascending order
NamesAscending ==
    <<"Controlled Substance", "Ginseng Extract", "Unknown Safety Ingredient", "Vitamin C">>

NameRank(name) == CHOOSE k \in 1..Len(NamesAscending) : NamesAscending[k] = name

\* ingredient.safety_level of each row of the Ingredient table
IngredientLevel == [i \in IngredientIds |-> safety_level(Ingredient[i].safety)]

\* FormulaItem.UNIT_CHOICES
UNIT_CHOICES == {"mg", "mcg", "g", "IU"}

\* request bodies of add_ingredient: dose_value in hundredths (DecimalField,
\* decimal_places=2), dose_unit, notes, order
ItemData == {
    [dose_value |-> 50000, dose_unit |-> "mg", notes |-> "", order |-> 0],
    [dose_value |-> 100, dose_unit |-> "g", notes |-> "with food", order |-> 1] }

\* a request body is_valid() rejects: "kg" is not in UNIT_CHOICES
InvalidItemData == {
    [dose_value |-> 100, dose_unit |-> "kg", notes |-> "", order |-> 0] }

\* formula.items: the FormulaItem rows of a formula
ItemsOf(fid) == {it \in items : it.formula = fid}

\* FormulaItem.Meta.ordering = ['order', 'ingredient__name'] (rows equal in both
\* are told apart by id)
ItemBefore(a, b) ==
    \/ a.order < b.order
    \/ /\ a.order = b.order
       /\ NameRank(Ingredient[a.ingredient].name) < NameRank(Ingredient[b.ingredient].name)
    \/ /\ a.order = b.order
       /\ a.ingredient = b.ingredient
       /\ a.id < b.id

RECURSIVE Ordered(_)
Ordered(S) ==
    IF S = {} THEN <<>>
    ELSE LET first == CHOOSE a \in S : \A b \in S \ {a} : ItemBefore(a, b)
         IN <<first>> \o Ordered(S \ {first})

\* formula.items.all(): the rows of a formula in the model's default ordering
items_all(fid) == Ordered(ItemsOf(fid))

\* formula.items.count()
items_count(fid) == Cardinality(ItemsOf(fid))

----------------------------------------------------------------------------
(* Formula.check_compliance *)

RISK_MESSAGE == ". This ingredient is restricted/controlled and requires regulatory review."
RISK_ACTION == "Review regulatory requirements before use"
EXTERNAL_MESSAGE == ". This ingredient is for external use only and should not be included in oral supplements."
EXTERNAL_ACTION == "Remove from oral supplement formula or verify alternative approved use"
PROCESSING_MESSAGE == ". Special processing or preparation is required."
PROCESSING_ACTION == "Verify proper processing methods are applied"
CAUTION_MESSAGE == ". Use with caution."
CAUTION_ACTION == "Review usage guidelines and dosage limits"

TOPICAL == <<"t","o","p","i","c","a","l">>
EXTERNAL == <<"e","x","t","e","r","n","a","l">>
ALKALOIDS == <<"a","l","k","a","l","o","i","d","s">>
PROCESSING_REQUIRED == <<"p","r","o","c","e","s","s","i","n","g"," ","r","e","q","u","i","r","e","d">>

\* faulty variant: the processing keywords are looked at before the external ones
caution_text_processing_first(safety_text) ==
    LET safety_lower == lower(safety_text) IN
    IF In(ALKALOIDS, safety_lower) \/ In(PROCESSING_REQUIRED, safety_lower)
    THEN [message |-> <<safety_text, PROCESSING_MESSAGE>>, action |-> PROCESSING_ACTION]
    ELSE IF In(TOPICAL, safety_lower) \/ In(EXTERNAL, safety_lower)
    THEN [message |-> <<safety_text, EXTERNAL_MESSAGE>>, action |-> EXTERNAL_ACTION]
    ELSE [message |-> <<safety_text, CAUTION_MESSAGE>>, action |-> CAUTION_ACTION]

\* the message and action of a CAUTION issue, chosen by the safety text
caution_text(safety_text) ==
    LET safety_lower == lower(safety_text) IN
    IF In(TOPICAL, safety_lower) \/ In(EXTERNAL, safety_lower)
    THEN [message |-> <<safety_text, EXTERNAL_MESSAGE>>, action |-> EXTERNAL_ACTION]
    ELSE IF In(ALKALOIDS, safety_lower) \/ In(PROCESSING_REQUIRED, safety_lower)
    THEN [message |-> <<safety_text, PROCESSING_MESSAGE>>, action |-> PROCESSING_ACTION]
    ELSE [message |-> <<safety_text, CAUTION_MESSAGE>>, action |-> CAUTION_ACTION]

\* the message and action of the issue of an ingredient at level lvl (RISK or
\* CAUTION): fixed for RISK, chosen by the safety text for CAUTION
issue_text(lvl, safety_text) ==
    IF lvl = "RISK"
    THEN [message |-> <<safety_text, RISK_MESSAGE>>, action |-> RISK_ACTION]
    ELSE caution_text(safety_text)

\* the dict appended to issues for an item; message is the f-string's two parts
\* and dose the pair f"{item.dose_value}{item.dose_unit}" is formatted from
issue_of(item, severity, text) ==
    [ingredient_id |-> item.ingredient,
     ingredient    |-> Ingredient[item.ingredient].name,
     dose          |-> <<item.dose_value, item.dose_unit>>,
     category      |-> Ingredient[item.ingredient].category,
     severity      |-> severity,
     level         |-> IngredientLevel[item.ingredient],
     safety_info   |-> Ingredient[item.ingredient].safety,
     message       |-> text.message,
     action        |-> text.action]

\* faulty variant: a RISK item is counted but no issue is appended for it
compliance_step_drops_risk_issue(acc, item) ==
    LET ingredient == Ingredient[item.ingredient]
        lvl == IngredientLevel[item.ingredient]
    IN  IF lvl = "RISK"
        THEN [acc EXCEPT !.risk_count = @ + 1]
        ELSE IF lvl = "CAUTION"
        THEN [acc EXCEPT
                !.caution_count = @ + 1,
                !.issues = Append(@, issue_of(item, "CAUTION", caution_text(ingredient.safety)))]
        ELSE IF lvl = "SAFE"
        THEN [acc EXCEPT !.safe_count = @ + 1]
        ELSE acc

\* faulty variant: an UNKNOWN item is flagged like a CAUTION item
compliance_step_flags_unknown(acc, item) ==
    LET ingredient == Ingredient[item.ingredient]
        lvl == IngredientLevel[item.ingredient]
    IN  IF lvl = "RISK"
        THEN [acc EXCEPT
                !.risk_count = @ + 1,
                !.issues = Append(@, issue_of(item, "RISK", issue_text("RISK", ingredient.safety)))]
        ELSE IF lvl \in {"CAUTION", "UNKNOWN"}
        THEN [acc EXCEPT
                !.caution_count = @ + 1,
                !.issues = Append(@, issue_of(item, "CAUTION",
                                              issue_text("CAUTION", ingredient.safety)))]
        ELSE [acc EXCEPT !.safe_count = @ + 1]

\* one pass of the loop over the items: the counters and the issue list after
\* the item (an UNKNOWN item matches no branch)
compliance_step(acc, item) ==
    LET ingredient == Ingredient[item.ingredient]
        lvl == IngredientLevel[item.ingredient]
    IN  IF lvl = "RISK"
        THEN [acc EXCEPT
                !.risk_count = @ + 1,
                !.issues = Append(@, issue_of(item, "RISK", issue_text("RISK", ingredient.safety)))]
        ELSE IF lvl = "CAUTION"
        THEN [acc EXCEPT
                !.caution_count = @ + 1,
                !.issues = Append(@, issue_of(item, "CAUTION",
                                              issue_text("CAUTION", ingredient.safety)))]
        ELSE IF lvl = "SAFE"
        THEN [acc EXCEPT !.safe_count = @ + 1]
        ELSE acc

\* faulty variant: the RISK items are looked at before the other items
RECURSIVE compliance_loop_risk_first(_, _, _)
compliance_loop_risk_first(its, i, acc) ==
    LET IsRisk(it) == IngredientLevel[it.ingredient] = "RISK"
        NotRisk(it) == IngredientLevel[it.ingredient] # "RISK"
        grouped == SelectSeq(its, IsRisk) \o SelectSeq(its, NotRisk)
    IN  IF i > Len(grouped) THEN acc
        ELSE compliance_loop_risk_first(grouped, i + 1, compliance_step(acc, grouped[i]))

RECURSIVE compliance_loop(_, _, _)
compliance_loop(its, i, acc) ==
    IF i > Len(its) THEN acc
    ELSE compliance_loop(its, i + 1, compliance_step(acc, its[i]))

\* faulty variant: the CAUTION count is looked at before the RISK count
overall_status_caution_first(risk_count, caution_count) ==
    IF caution_count > 0
    THEN [status |-> "WARNING", status_message |-> <<"WARNING", caution_count>>, can_proceed |-> TRUE]
    ELSE IF risk_count > 0
    THEN [status |-> "STOP", status_message |-> <<"STOP", risk_count>>, can_proceed |-> FALSE]
    ELSE [status |-> "APPROVED", status_message |-> <<"APPROVED", 0>>, can_proceed |-> TRUE]

\* "Determine overall status": status_message is the message's kind and the
\* count its f-string prints
overall_status(risk_count, caution_count) ==
    IF risk_count > 0
    THEN [status |-> "STOP", status_message |-> <<"STOP", risk_count>>, can_proceed |-> FALSE]
    ELSE IF caution_count > 0
    THEN [status |-> "WARNING", status_message |-> <<"WARNING", caution_count>>, can_proceed |-> TRUE]
    ELSE [status |-> "APPROVED", status_message |-> <<"APPROVED", 0>>, can_proceed |-> TRUE]

\* Formula.check_compliance(): the dict it returns
check_compliance(fid) ==
    LET acc == compliance_loop(items_all(fid), 1,
                   [issues |-> <<>>, risk_count |-> 0, caution_count |-> 0, safe_count |-> 0])
        overall == overall_status(acc.risk_count, acc.caution_count)
    IN  [status            |-> overall.status,
         status_message    |-> overall.status_message,
         can_proceed       |-> overall.can_proceed,
         total_ingredients |-> items_count(fid),
         summary           |-> [safe |-> acc.safe_count,
                                caution |-> acc.caution_count,
                                risk |-> acc.risk_count],
         issues            |-> acc.issues]

\* check_compliance meets an item of the ingredient whose level has been read:
\* the message and action of its issue, None ("none") for a SAFE or UNKNOWN
\* ingredient
ReadIssueText ==
    /\ level # "NONE"
    /\ response' = [op |-> "issue_text", user |-> "none", pk |-> 0, code |-> 0,
                    body |-> IF level \in {"RISK", "CAUTION"}
                             THEN [severity |-> level, safety_info |-> safety,
                                   text |-> issue_text(level, safety)]
                             ELSE [severity |-> "none", safety_info |-> safety]]
    /\ UNCHANGED <<formulas, items, nextFormulaId, nextItemId>>
    /\ UNCHANGED <<classifyVars, productVars, inflight>>

----------------------------------------------------------------------------
(* FormulaListSerializer.get_compliance_status *)

\* faulty variant: the loop also stops at the first CAUTION item
badge_loop_stops_at_caution(its, i, flags) ==
    LET stop == {k \in 1..Len(its) : IngredientLevel[its[k].ingredient] \in {"RISK", "CAUTION"}}
        first == CHOOSE k \in stop : \A j \in stop : k <= j
    IN  IF stop = {} THEN flags
        ELSE IF IngredientLevel[its[first].ingredient] = "RISK"
        THEN [flags EXCEPT !.has_risk = TRUE]
        ELSE [flags EXCEPT !.has_caution = TRUE]

\* the loop over obj.items.all(), from item i on: it breaks at the first RISK item
RECURSIVE badge_loop(_, _, _)
badge_loop(its, i, flags) ==
    IF i > Len(its) THEN flags
    ELSE LET lvl == IngredientLevel[its[i].ingredient]
         IN  IF lvl = "RISK" THEN [flags EXCEPT !.has_risk = TRUE]
             ELSE IF lvl = "CAUTION"
             THEN badge_loop(its, i + 1, [flags EXCEPT !.has_caution = TRUE])
             ELSE badge_loop(its, i + 1, flags)

get_compliance_status(fid) ==
    IF items_count(fid) = 0
    THEN [status |-> "EMPTY", badge_color |-> "#757575"]
    ELSE LET flags == badge_loop(items_all(fid), 1, [has_risk |-> FALSE, has_caution |-> FALSE])
         IN  IF flags.has_risk THEN [status |-> "STOP", badge_color |-> "#f44336"]
             ELSE IF flags.has_caution THEN [status |-> "WARNING", badge_color |-> "#ff9800"]
             ELSE [status |-> "APPROVED", badge_color |-> "#4caf50"]

\* FormulaListSerializer: the fields of a formula in the list view
list_entry(fm) ==
    [id |-> fm.id,
     owner_username |-> fm.owner,
     item_count |-> items_count(fm.id),
     compliance_status |-> get_compliance_status(fm.id)]


----------------------------------------------------------------------------
(* Formula.total_weight_mg *)

\* rows written with FormulaItem.objects.create, as the model tests do: dose in
\* hundredths, with the units of the test of the total weight, a dose below a
\* hundredth of a milligram, an IU dose, and a unit outside UNIT_CHOICES (the
\* choices are checked by the serializer, not by objects.create)
WeightData == {
    [dose_value |-> 50000, dose_unit |-> "mg", notes |-> "", order |-> 0],
    [dose_value |-> 100, dose_unit |-> "g", notes |-> "", order |-> 0],
    [dose_value |-> 10000, dose_unit |-> "mcg", notes |-> "", order |-> 0],
    [dose_value |-> 600, dose_unit |-> "mcg", notes |-> "", order |-> 0],
    [dose_value |-> 40000, dose_unit |-> "IU", notes |-> "", order |-> 0],
    [dose_value |-> 100, dose_unit |-> "kg", notes |-> "", order |-> 0] }

\* faulty variant: an IU dose is added as if it were milligrams
weight_step_counts_iu(total, item) ==
    IF item.dose_unit = "g" THEN total + item.dose_value * 1000000
    ELSE IF item.dose_unit = "mcg" THEN total + item.dose_value
    ELSE IF item.dose_unit \in {"mg", "IU"} THEN total + item.dose_value * 1000
    ELSE total

\* one pass of the loop of total_weight_mg; the total is kept in units of
\* 0.00001 mg, in which a dose of d hundredths is d * 1000 for mg, d * 1000000
\* for g and d for mcg; a dose in another unit matches no branch
weight_step(total, item) ==
    IF item.dose_unit = "g" THEN total + item.dose_value * 1000000
    ELSE IF item.dose_unit = "mcg" THEN total + item.dose_value
    ELSE IF item.dose_unit = "mg" THEN total + item.dose_value * 1000
    ELSE total

RECURSIVE weight_loop(_, _, _)
weight_loop(its, i, total) ==
    IF i > Len(its) THEN total
    ELSE weight_loop(its, i + 1, weight_step(total, its[i]))

\* round(total, 2): the nearest hundredth of a milligram, as a number of
\* hundredths (the doses of the model never add up to a total halfway between
\* two hundredths, where the float's binary digits decide)
round_2(total) == (total + 500) \div 1000

\* the total weight in hundredths of a milligram
total_weight_mg(fid) == round_2(weight_loop(items_all(fid), 1, 0))


----------------------------------------------------------------------------
(* IngredientViewSet.get_queryset *)

\* the case folding of the database in a LIKE comparison: ASCII letters are
\* folded by every backend; whether the KELVIN SIGN is folded to "k" depends on
\* the backend and its collation (SQLite and PostgreSQL do not fold it)
like_fold(s, folds_kelvin) ==
    [i \in 1..Len(s) |-> IF s[i] \in DOMAIN UpperCase THEN UpperCase[s[i]]
                         ELSE IF s[i] = KelvinSign /\ folds_kelvin THEN "k"
                         ELSE s[i]]

\* the lookup safety__icontains=word, evaluated by the database
icontains(text, word, folds_kelvin) ==
    In(like_fold(word, folds_kelvin), like_fold(text, folds_kelvin))

EXCLUDED_WORDS == <<
    <<"R","e","s","t","r","i","c","t","e","d">>,
    <<"C","o","n","t","r","o","l","l","e","d">>,
    <<"H","i","g","h","-","R","i","s","k">> >>

\* .exclude(safety__icontains="Restricted").exclude(safety__icontains="Controlled")
\* .exclude(safety__icontains="High-Risk")
passes_exclude_risk(text, folds_kelvin) ==
    \A k \in 1..Len(EXCLUDED_WORDS) : ~icontains(text, EXCLUDED_WORDS[k], folds_kelvin)

\* pieces the safety text of the listed ingredient is typed from
ListingFragments == {
    <<"G","e","n","e","r","a","l"," ","d","i","e","t","a","r","y"," ","u","s","e">>,
    <<"C","a","u","t","i","o","n">>,
    <<"R","E","S","T","R","I","C","T","E","D">>,
    <<"c","o","n","t","r","o","l","l","e","d">>,
    <<"H","i","g","h","-","R","i","s","k">>,
    <<"H","I","G","H","-","R","I","S",KelvinSign>>,
    <<" ","u","s","e"," ","o","n","l","y">> }

\* GET /api/ingredients/ with or without exclude_risk=true, for the catalog
\* with the one ingredient whose safety text is typed; the answer is recorded
\* with the exclude_risk of the request. IngredientListSerializer gives the
\* safety text and the safety_level of each row
ingredient_list(exclude_risk, folds_kelvin) ==
    /\ response' = [op |-> "ingredient_list", user |-> "none", pk |-> 0, code |-> 200,
                    exclude_risk |-> exclude_risk,
                    body |-> [results |->
                        IF exclude_risk /\ ~passes_exclude_risk(safety, folds_kelvin)
                        THEN {}
                        ELSE {[safety |-> safety, safety_level |-> safety_level(safety)]}]]
    /\ UNCHANGED <<safety, level, edits>>
    /\ UNCHANGED <<formulas, items, nextFormulaId, nextItemId, productVars, inflight>>

----------------------------------------------------------------------------
(* FormulaViewSet *)

\* faulty variant: the queryset is not filtered by owner
get_queryset_all(user) == formulas

\* get_queryset() and get_object(): the formula pk among the user's own formulas
get_queryset(user) == {fm \in formulas : fm.owner = user}

Found(user, pk) == \E fm \in get_queryset(user) : fm.id = pk

NOT_FOUND(op, user, pk) ==
    [op |-> op, user |-> user, pk |-> pk, code |-> 404, body |-> [detail |-> "Not found."]]

Pks == 1..MaxFormulaId

\* the workers that handle add_ingredient requests at the same time
RequestIds == 1..MaxRequests

\* a worker that handles no request
Idle == [pc |-> "idle", user |-> "none", pk |-> 0, ingredient_id |-> 0,
         data |-> [none |-> TRUE], code |-> 0]

\* the worker's request has been answered with code
Answered(user, pk, ingredient_id, data, code) ==
    [pc |-> "answered", user |-> user, pk |-> pk, ingredient_id |-> ingredient_id,
     data |-> data, code |-> code]

InitApi ==
    /\ formulas = {}
    /\ items = {}
    /\ nextFormulaId = 1
    /\ nextItemId = 1
    /\ response = [op |-> "none", user |-> "none", pk |-> 0, code |-> 0, body |-> [none |-> TRUE]]
    /\ inflight = [r \in RequestIds |-> Idle]

\* POST /api/formulas/ : perform_create saves the formula with owner=request.user
\* (the body names no region and no description, so the row gets the default
\* 'US' and the empty text)
create(user) ==
    /\ formulas' = formulas \cup {[id |-> nextFormulaId, owner |-> user, region |-> "US",
                                    description |-> ""]}
    /\ nextFormulaId' = nextFormulaId + 1
    /\ response' = [op |-> "create", user |-> user, pk |-> nextFormulaId, code |-> 201,
                    body |-> [id |-> nextFormulaId, owner_username |-> user]]
    /\ UNCHANGED <<items, nextItemId>>
    /\ UNCHANGED <<classifyVars, productVars, inflight>>

\* faulty variant: the formula row is deleted and its items are left behind
destroy_keeps_items(user, pk) ==
    /\ IF ~(\E fm \in formulas : fm.id = pk /\ fm.owner = user)
       THEN /\ response' = [op |-> "destroy", user |-> user, pk |-> pk, code |-> 404,
                            body |-> [detail |-> "Not found."]]
            /\ UNCHANGED formulas
       ELSE /\ formulas' = {fm \in formulas : fm.id # pk}
            /\ response' = [op |-> "destroy", user |-> user, pk |-> pk, code |-> 204,
                            body |-> [none |-> TRUE]]
    /\ UNCHANGED <<items, nextFormulaId, nextItemId>>
    /\ UNCHANGED <<classifyVars, productVars, inflight>>

\* DELETE /api/formulas/{id}/ : the items go with the formula (on_delete=CASCADE)
destroy(user, pk) ==
    /\ IF ~Found(user, pk)
       THEN /\ response' = NOT_FOUND("destroy", user, pk)
            /\ UNCHANGED <<formulas, items>>
       ELSE /\ formulas' = {fm \in formulas : fm.id # pk}
            /\ items' = {it \in items : it.formula # pk}
            /\ response' = [op |-> "destroy", user |-> user, pk |-> pk, code |-> 204,
                            body |-> [none |-> TRUE]]
    /\ UNCHANGED <<nextFormulaId, nextItemId>>
    /\ UNCHANGED <<classifyVars, productVars, inflight>>

\* GET /api/formulas/ : the user's formulas through FormulaListSerializer (the
\* order of the results, by -updated_at, is not modelled)
list(user) ==
    /\ response' = [op |-> "list", user |-> user, pk |-> 0, code |-> 200,
                    body |-> [results |-> {list_entry(fm) : fm \in get_queryset(user)}]]
    /\ UNCHANGED <<formulas, items, nextFormulaId, nextItemId>>
    /\ UNCHANGED <<classifyVars, productVars, inflight>>

\* FormulaItemSerializer(data=request.data).is_valid(): validate_ingredient_id
\* and the choices of dose_unit
is_valid(ingredient_id, data) ==
    /\ ingredient_id \in IngredientIds
    /\ data.dose_unit \in UNIT_CHOICES

\* faulty variant: a request for an ingredient the formula holds overwrites the
\* dose, unit and notes of the existing item
add_ingredient_overwrites(user, pk, ingredient_id, data) ==
    /\ IF ~Found(user, pk)
       THEN /\ response' = NOT_FOUND("add_ingredient", user, pk)
            /\ UNCHANGED <<items, nextItemId>>
       ELSE IF ~is_valid(ingredient_id, data)
       THEN /\ response' = [op |-> "add_ingredient", user |-> user, pk |-> pk, code |-> 400,
                            body |-> [errors |-> "serializer.errors"]]
            /\ UNCHANGED <<items, nextItemId>>
       ELSE IF \E it \in items : it.formula = pk /\ it.ingredient = ingredient_id
       THEN LET old == CHOOSE it \in items : it.formula = pk /\ it.ingredient = ingredient_id
                item == [old EXCEPT !.dose_value = data.dose_value,
                                    !.dose_unit = data.dose_unit,
                                    !.notes = data.notes]
            IN  /\ items' = (items \ {old}) \cup {item}
                /\ response' = [op |-> "add_ingredient", user |-> user, pk |-> pk, code |-> 200,
                                body |-> [item |-> item]]
                /\ UNCHANGED nextItemId
       ELSE LET item == [id |-> nextItemId, formula |-> pk, ingredient |-> ingredient_id,
                         dose_value |-> data.dose_value, dose_unit |-> data.dose_unit,
                         notes |-> data.notes, order |-> data.order]
            IN  /\ items' = items \cup {item}
                /\ nextItemId' = nextItemId + 1
                /\ response' = [op |-> "add_ingredient", user |-> user, pk |-> pk, code |-> 201,
                                body |-> [item |-> item]]
    /\ UNCHANGED <<formulas, nextFormulaId>>
    /\ UNCHANGED <<classifyVars, productVars, inflight>>

\* POST /api/formulas/{id}/add_ingredient/
add_ingredient(user, pk, ingredient_id, data) ==
    /\ IF ~Found(user, pk)
       THEN /\ response' = NOT_FOUND("add_ingredient", user, pk)
            /\ UNCHANGED <<items, nextItemId>>
       ELSE IF ~is_valid(ingredient_id, data)
       THEN /\ response' = [op |-> "add_ingredient", user |-> user, pk |-> pk, code |-> 400,
                            body |-> [errors |-> "serializer.errors"]]
            /\ UNCHANGED <<items, nextItemId>>
       ELSE IF \E it \in items : it.formula = pk /\ it.ingredient = ingredient_id
       THEN /\ response' = [op |-> "add_ingredient", user |-> user, pk |-> pk, code |-> 400,
                            body |-> [error |-> "Ingredient already exists in this formula"]]
            /\ UNCHANGED <<items, nextItemId>>
       ELSE LET item == [id |-> nextItemId, formula |-> pk, ingredient |-> ingredient_id,
                         dose_value |-> data.dose_value, dose_unit |-> data.dose_unit,
                         notes |-> data.notes, order |-> data.order]
            IN  /\ items' = items \cup {item}
                /\ nextItemId' = nextItemId + 1
                /\ response' = [op |-> "add_ingredient", user |-> user, pk |-> pk, code |-> 201,
                                body |-> [item |-> item]]
    /\ UNCHANGED <<formulas, nextFormulaId>>
    /\ UNCHANGED <<classifyVars, productVars, inflight>>

\* faulty variant: the table has no unique constraint on (formula, ingredient)
violates_unique_together_unconstrained(row) == FALSE

\* unique_together = ['formula', 'ingredient']: the database refuses a row when
\* another row has the same formula and ingredient
violates_unique_together(row) ==
    \E it \in items : it.id # row.id /\ it.formula = row.formula /\ it.ingredient = row.ingredient

\* add_ingredient up to the existence check, by worker r: get_object(),
\* is_valid() and FormulaItem.objects.filter(...).exists(); a request that
\* passes all three goes on to serializer.save()
add_ingredient_check(r, user, pk, ingredient_id, data) ==
    /\ inflight[r].pc # "save"
    /\ IF ~Found(user, pk)
       THEN /\ response' = NOT_FOUND("add_ingredient", user, pk)
            /\ inflight' = [inflight EXCEPT ![r] = Answered(user, pk, ingredient_id, data, 404)]
       ELSE IF ~is_valid(ingredient_id, data)
       THEN /\ response' = [op |-> "add_ingredient", user |-> user, pk |-> pk, code |-> 400,
                            body |-> [errors |-> "serializer.errors"]]
            /\ inflight' = [inflight EXCEPT ![r] = Answered(user, pk, ingredient_id, data, 400)]
       ELSE IF \E it \in items : it.formula = pk /\ it.ingredient = ingredient_id
       THEN /\ response' = [op |-> "add_ingredient", user |-> user, pk |-> pk, code |-> 400,
                            body |-> [error |-> "Ingredient already exists in this formula"]]
            /\ inflight' = [inflight EXCEPT ![r] = Answered(user, pk, ingredient_id, data, 400)]
       ELSE /\ inflight' = [inflight EXCEPT ![r] =
                                [pc |-> "save", user |-> user, pk |-> pk,
                                 ingredient_id |-> ingredient_id, data |-> data, code |-> 0]]
            /\ UNCHANGED response
    /\ UNCHANGED <<formulas, items, nextFormulaId, nextItemId>>
    /\ UNCHANGED <<classifyVars, productVars>>

\* serializer.save(formula=formula) of worker r: the INSERT; the database
\* refuses a second row for (formula, ingredient) with an IntegrityError, which
\* the view does not catch (500)
add_ingredient_save(r) ==
    /\ inflight[r].pc = "save"
    /\ LET req == inflight[r]
           item == [id |-> nextItemId, formula |-> req.pk, ingredient |-> req.ingredient_id,
                    dose_value |-> req.data.dose_value, dose_unit |-> req.data.dose_unit,
                    notes |-> req.data.notes, order |-> req.data.order]
       IN  IF violates_unique_together(item)
           THEN /\ response' = [op |-> "add_ingredient", user |-> req.user, pk |-> req.pk,
                                code |-> 500, body |-> [error |-> "IntegrityError"]]
                /\ inflight' = [inflight EXCEPT ![r] =
                                    Answered(req.user, req.pk, req.ingredient_id, req.data, 500)]
                /\ UNCHANGED <<items, nextItemId>>
           ELSE /\ items' = items \cup {item}
                /\ nextItemId' = nextItemId + 1
                /\ response' = [op |-> "add_ingredient", user |-> req.user, pk |-> req.pk,
                                code |-> 201, body |-> [item |-> item]]
                /\ inflight' = [inflight EXCEPT ![r] =
                                    Answered(req.user, req.pk, req.ingredient_id, req.data, 201)]
    /\ UNCHANGED <<formulas, nextFormulaId>>
    /\ UNCHANGED <<classifyVars, productVars>>

\* faulty variant: the item is looked up by its id alone, in any formula
remove_ingredient_any_formula(user, pk, item_id) ==
    /\ IF ~Found(user, pk)
       THEN /\ response' = NOT_FOUND("remove_ingredient", user, pk)
            /\ UNCHANGED items
       ELSE IF \E it \in items : it.id = item_id
       THEN /\ items' = {it \in items : it.id # item_id}
            /\ response' = [op |-> "remove_ingredient", user |-> user, pk |-> pk, code |-> 204,
                            body |-> [none |-> TRUE], item_id |-> item_id]
       ELSE /\ response' = [op |-> "remove_ingredient", user |-> user, pk |-> pk, code |-> 404,
                            body |-> [error |-> "Ingredient not found in this formula"],
                            item_id |-> item_id]
            /\ UNCHANGED items
    /\ UNCHANGED <<formulas, nextFormulaId, nextItemId>>
    /\ UNCHANGED <<classifyVars, productVars, inflight>>

\* DELETE /api/formulas/{id}/remove_ingredient/{item_id}/ ; the answer of a
\* request that reached the item lookup is recorded with the item_id of its URL
remove_ingredient(user, pk, item_id) ==
    /\ IF ~Found(user, pk)
       THEN /\ response' = NOT_FOUND("remove_ingredient", user, pk)
            /\ UNCHANGED items
       ELSE IF \E it \in items : it.id = item_id /\ it.formula = pk
       THEN /\ items' = {it \in items : it.id # item_id}
            /\ response' = [op |-> "remove_ingredient", user |-> user, pk |-> pk, code |-> 204,
                            body |-> [none |-> TRUE], item_id |-> item_id]
       ELSE /\ response' = [op |-> "remove_ingredient", user |-> user, pk |-> pk, code |-> 404,
                            body |-> [error |-> "Ingredient not found in this formula"],
                            item_id |-> item_id]
            /\ UNCHANGED items
    /\ UNCHANGED <<formulas, nextFormulaId, nextItemId>>
    /\ UNCHANGED <<classifyVars, productVars, inflight>>

\* faulty variant: the endpoint runs the check without looking at the item count
check_compliance_response_unguarded(user, pk) ==
    [op |-> "check_compliance", user |-> user, pk |-> pk, code |-> 200,
     body |-> [result |-> check_compliance(pk), formula_id |-> pk]]

\* the response of check_compliance for a formula of the user: the guard on an
\* empty formula, else the result of Formula.check_compliance() with the
\* formula's id added (the other metadata keys are not modelled)
check_compliance_response(user, pk) ==
    IF items_count(pk) = 0
    THEN [op |-> "check_compliance", user |-> user, pk |-> pk, code |-> 400,
          body |-> [error |-> "Formula has no ingredients. Add ingredients before checking compliance."]]
    ELSE [op |-> "check_compliance", user |-> user, pk |-> pk, code |-> 200,
          body |-> [result |-> check_compliance(pk), formula_id |-> pk]]

\* faulty variant: the check saves each item's position in the formula as its
\* order
check_compliance_view_saves_order(user, pk) ==
    /\ IF ~Found(user, pk)
       THEN /\ response' = NOT_FOUND("check_compliance", user, pk)
            /\ UNCHANGED items
       ELSE /\ items' = {it \in items : it.formula # pk}
                          \cup {[items_all(pk)[k] EXCEPT !.order = k] :
                                  k \in 1..Len(items_all(pk))}
            /\ response' = check_compliance_response(user, pk)
    /\ UNCHANGED <<formulas, nextFormulaId, nextItemId>>
    /\ UNCHANGED <<classifyVars, productVars, inflight>>

\* POST /api/formulas/{id}/check_compliance/
check_compliance_view(user, pk) ==
    /\ response' = IF ~Found(user, pk)
                   THEN NOT_FOUND("check_compliance", user, pk)
                   ELSE check_compliance_response(user, pk)
    /\ UNCHANGED <<formulas, items, nextFormulaId, nextItemId>>
    /\ UNCHANGED <<classifyVars, productVars, inflight>>

\* faulty variant: the tally of the summary counts an UNKNOWN item as safe
summary_step_unknown_is_safe(acc, item) ==
    LET lvl == IngredientLevel[item.ingredient]
    IN  IF lvl = "CAUTION" THEN [acc EXCEPT !.caution_count = @ + 1]
        ELSE IF lvl = "RISK" THEN [acc EXCEPT !.risk_count = @ + 1]
        ELSE [acc EXCEPT !.safe_count = @ + 1]

\* one pass of the loop of compliance_summary over the items
summary_step(acc, item) ==
    LET lvl == IngredientLevel[item.ingredient]
    IN  IF lvl = "SAFE" THEN [acc EXCEPT !.safe_count = @ + 1]
        ELSE IF lvl = "CAUTION" THEN [acc EXCEPT !.caution_count = @ + 1]
        ELSE IF lvl = "RISK" THEN [acc EXCEPT !.risk_count = @ + 1]
        ELSE acc

RECURSIVE summary_loop(_, _, _)
summary_loop(its, i, acc) ==
    IF i > Len(its) THEN acc
    ELSE summary_loop(its, i + 1, summary_step(acc, its[i]))

\* the body of the response of compliance_summary for a formula of the user
compliance_summary_body(pk) ==
    IF items_count(pk) = 0
    THEN [status |-> "EMPTY",
          message |-> "No ingredients in formula",
          summary |-> [safe |-> 0, caution |-> 0, risk |-> 0]]
    ELSE LET acc == summary_loop(items_all(pk), 1,
                        [safe_count |-> 0, caution_count |-> 0, risk_count |-> 0])
             status_label == IF acc.risk_count > 0 THEN "STOP"
                             ELSE IF acc.caution_count > 0 THEN "WARNING"
                             ELSE "APPROVED"
         IN  [status |-> status_label,
              summary |-> [safe |-> acc.safe_count,
                           caution |-> acc.caution_count,
                           risk |-> acc.risk_count],
              total_ingredients |-> items_count(pk)]

\* GET /api/formulas/{id}/compliance_summary/
compliance_summary(user, pk) ==
    /\ response' = IF ~Found(user, pk)
                   THEN NOT_FOUND("compliance_summary", user, pk)
                   ELSE [op |-> "compliance_summary", user |-> user, pk |-> pk, code |-> 200,
                         body |-> compliance_summary_body(pk)]
    /\ UNCHANGED <<formulas, items, nextFormulaId, nextItemId>>
    /\ UNCHANGED <<classifyVars, productVars, inflight>>


\* FormulaDetailSerializer: the fields of a formula in the detail view
detail_entry(fm) ==
    [id |-> fm.id,
     owner_username |-> fm.owner,
     items |-> items_all(fm.id),
     total_weight |-> total_weight_mg(fm.id),
     item_count |-> items_count(fm.id)]

\* GET /api/formulas/{id}/
retrieve(user, pk) ==
    /\ response' = IF ~Found(user, pk)
                   THEN NOT_FOUND("retrieve", user, pk)
                   ELSE [op |-> "retrieve", user |-> user, pk |-> pk, code |-> 200,
                         body |-> detail_entry(CHOOSE fm \in get_queryset(user) : fm.id = pk)]
    /\ UNCHANGED <<formulas, items, nextFormulaId, nextItemId>>
    /\ UNCHANGED <<classifyVars, productVars, inflight>>

\* FormulaItem.objects.create(formula=..., ingredient=..., dose_value=...,
\* dose_unit=...): the row is written without the serializer; the database
\* refuses a second row for the same (formula, ingredient) with IntegrityError
objects_create(fid, ingredient_id, data) ==
    /\ \E fm \in formulas : fm.id = fid
    /\ ingredient_id \in IngredientIds
    /\ IF \E it \in items : it.formula = fid /\ it.ingredient = ingredient_id
       THEN /\ response' = [op |-> "objects_create", user |-> "none", pk |-> fid, code |-> 0,
                            body |-> [error |-> "IntegrityError"]]
            /\ UNCHANGED <<items, nextItemId>>
       ELSE LET item == [id |-> nextItemId, formula |-> fid, ingredient |-> ingredient_id,
                         dose_value |-> data.dose_value, dose_unit |-> data.dose_unit,
                         notes |-> data.notes, order |-> data.order]
            IN  /\ items' = items \cup {item}
                /\ nextItemId' = nextItemId + 1
                /\ response' = [op |-> "objects_create", user |-> "none", pk |-> fid, code |-> 0,
                                body |-> [item |-> item]]
    /\ UNCHANGED <<formulas, nextFormulaId>>
    /\ UNCHANGED <<classifyVars, productVars, inflight>>


\* Formula.REGION_CHOICES
REGION_CHOICES == {"US", "EU", "CA", "AU"}

\* request bodies of PATCH /api/formulas/{id}/ : a new region, a new description
FormulaData == { [region |-> "EU"], [description |-> "A test supplement formula"] }

\* faulty variant: the copies get the default order and no notes
RECURSIVE copy_items_without_order(_, _, _, _)
copy_items_without_order(its, i, new_id, next_id) ==
    IF i > Len(its) THEN {}
    ELSE {[its[i] EXCEPT !.id = next_id, !.formula = new_id, !.order = 0, !.notes = ""]}
            \cup copy_items_without_order(its, i + 1, new_id, next_id + 1)

\* PATCH /api/formulas/{id}/ : the fields of the body are saved on the formula
update(user, pk, data) ==
    /\ IF ~Found(user, pk)
       THEN /\ response' = NOT_FOUND("update", user, pk)
            /\ UNCHANGED formulas
       ELSE IF "region" \in DOMAIN data /\ data.region \notin REGION_CHOICES
       THEN /\ response' = [op |-> "update", user |-> user, pk |-> pk, code |-> 400,
                            body |-> [errors |-> "serializer.errors"]]
            /\ UNCHANGED formulas
       ELSE LET fm == CHOOSE f \in get_queryset(user) : f.id = pk
                saved == [f \in DOMAIN fm |-> IF f \in DOMAIN data THEN data[f] ELSE fm[f]]
            IN  /\ formulas' = (formulas \ {fm}) \cup {saved}
                /\ response' = [op |-> "update", user |-> user, pk |-> pk, code |-> 200,
                                body |-> [id |-> pk, owner_username |-> user,
                                          region |-> saved.region,
                                          description |-> saved.description]]
    /\ UNCHANGED <<items, nextFormulaId, nextItemId>>
    /\ UNCHANGED <<classifyVars, productVars, inflight>>

\* request bodies of update_ingredient (partial=True, so any subset of the
\* writable fields of FormulaItemSerializer): the body of the docstring, a new
\* order, a new ingredient_id, and a unit outside UNIT_CHOICES
UpdateData ==
    { [dose_value |-> 75000, dose_unit |-> "mg", notes |-> "Updated notes"],
      [order |-> 1],
      [dose_unit |-> "kg"] }
    \cup { [ingredient_id |-> i] : i \in IngredientIds \cup MissingIngredientIds }

\* FormulaItemSerializer(item, data=..., partial=True).is_valid(): the fields
\* that are present are validated
is_valid_partial(data) ==
    /\ "ingredient_id" \in DOMAIN data => data.ingredient_id \in IngredientIds
    /\ "dose_unit" \in DOMAIN data => data.dose_unit \in UNIT_CHOICES

\* ModelSerializer.update: every validated field is set on the row
\* (ingredient_id is the column of the ingredient reference)
serializer_update(item, data) ==
    [f \in DOMAIN item |->
        IF f = "ingredient" /\ "ingredient_id" \in DOMAIN data THEN data.ingredient_id
        ELSE IF f \in DOMAIN data THEN data[f]
        ELSE item[f]]

\* PATCH /api/formulas/{id}/update_ingredient/{item_id}/ ; an IntegrityError of
\* save() is not caught by the view and becomes a 500
update_ingredient(user, pk, item_id, data) ==
    /\ IF ~Found(user, pk)
       THEN /\ response' = NOT_FOUND("update_ingredient", user, pk)
            /\ UNCHANGED items
       ELSE IF ~\E it \in items : it.id = item_id /\ it.formula = pk
       THEN /\ response' = [op |-> "update_ingredient", user |-> user, pk |-> pk, code |-> 404,
                            body |-> [error |-> "Ingredient not found in this formula"]]
            /\ UNCHANGED items
       ELSE IF ~is_valid_partial(data)
       THEN /\ response' = [op |-> "update_ingredient", user |-> user, pk |-> pk, code |-> 400,
                            body |-> [errors |-> "serializer.errors"]]
            /\ UNCHANGED items
       ELSE LET item == CHOOSE it \in items : it.id = item_id /\ it.formula = pk
                saved == serializer_update(item, data)
            IN  IF violates_unique_together(saved)
                THEN /\ response' = [op |-> "update_ingredient", user |-> user, pk |-> pk,
                                     code |-> 500, body |-> [error |-> "IntegrityError"]]
                     /\ UNCHANGED items
                ELSE /\ items' = (items \ {item}) \cup {saved}
                     /\ response' = [op |-> "update_ingredient", user |-> user, pk |-> pk,
                                     code |-> 200, body |-> [item |-> saved]]
    /\ UNCHANGED <<formulas, nextFormulaId, nextItemId>>
    /\ UNCHANGED <<classifyVars, productVars, inflight>>

\* the loop of duplicate over original.items.all(): item i of its is copied
\* into formula new_id with the next free item id
RECURSIVE copy_items(_, _, _, _)
copy_items(its, i, new_id, next_id) ==
    IF i > Len(its) THEN {}
    ELSE {[its[i] EXCEPT !.id = next_id, !.formula = new_id]}
            \cup copy_items(its, i + 1, new_id, next_id + 1)

\* POST /api/formulas/{id}/duplicate/ : a new formula of the requesting user
\* with the description and region of the original and a copy of each of its
\* items (the name and the timestamps of a formula are not modelled)
duplicate(user, pk) ==
    /\ IF ~Found(user, pk)
       THEN /\ response' = NOT_FOUND("duplicate", user, pk)
            /\ UNCHANGED <<formulas, items, nextFormulaId, nextItemId>>
       ELSE LET original == CHOOSE fm \in get_queryset(user) : fm.id = pk
                new_formula == [id |-> nextFormulaId, owner |-> user,
                                region |-> original.region,
                                description |-> original.description]
                copies == copy_items(items_all(pk), 1, nextFormulaId, nextItemId)
            IN  /\ formulas' = formulas \cup {new_formula}
                /\ items' = items \cup copies
                /\ nextFormulaId' = nextFormulaId + 1
                /\ nextItemId' = nextItemId + items_count(pk)
                /\ response' = [op |-> "duplicate", user |-> user, pk |-> pk, code |-> 201,
                                body |-> [id |-> new_formula.id, owner_username |-> user,
                                          region |-> new_formula.region,
                                          description |-> new_formula.description,
                                          item_count |-> Cardinality(copies)]]
    /\ UNCHANGED <<classifyVars, productVars, inflight>>

\* the export endpoints of a formula
ExportKinds == {"export_label", "export_summary", "export_csv"}

\* GET /api/formulas/{id}/export_label/ , export_summary/ and export_csv/ : a
\* file for a formula with items; generated reports whether the PDF generator
\* returned or raised (the CSV is written by the view itself)
export(kind, user, pk, generated) ==
    /\ kind = "export_csv" => generated
    /\ response' = IF ~Found(user, pk)
                   THEN NOT_FOUND(kind, user, pk)
                   ELSE IF items_count(pk) = 0
                   THEN [op |-> kind, user |-> user, pk |-> pk, code |-> 400,
                         body |-> [error |-> "Formula has no ingredients."]]
                   ELSE IF ~generated
                   THEN [op |-> kind, user |-> user, pk |-> pk, code |-> 500,
                         body |-> [error |-> "Failed to generate PDF"]]
                   ELSE [op |-> kind, user |-> user, pk |-> pk, code |-> 200,
                         body |-> [file_of |-> pk]]
    /\ UNCHANGED <<formulas, items, nextFormulaId, nextItemId>>
    /\ UNCHANGED <<classifyVars, productVars, inflight>>


----------------------------------------------------------------------------
(* ProductViewset and the signals of Product (main/views.py, main/signals.py) *)

\* the names a product is created with or renamed to
ProductNames == {"Test Product 1", "Updated Product"}

\* whether the user of a request is_staff: IsAdminUser guards the writes
Staff == {TRUE, FALSE}

InitProducts ==
    /\ products = {}
    /\ nextProductId = 1
    /\ cache = <<>>

\* faulty variant: the entry is left in the cache
cache_delete_keeps_entry(entry) == entry

\* cache.delete(PRODUCT_CACHE_KEY): the entry after the call
cache_delete(entry) == <<>>

\* cache.get(PRODUCT_CACHE_KEY): <<>> stands for None, <<data>> for cached data
cache_get(entry) == entry

\* cache.set(PRODUCT_CACHE_KEY, data, timeout): the entry after the call
cache_set(entry, data) == <<data>>

\* the receivers of post_save and post_delete of Product, run by save(),
\* objects.create() and delete() before they return
clear_product_cache_on_save(entry) == cache_delete(entry)

clear_product_cache_on_delete(entry) == cache_delete(entry)

\* ProductSerializer(queryset, many=True).data (the order, by -created_at, is
\* not modelled)
product_data(rows) == rows

\* the response of a write by a user that is not staff
FORBIDDEN(op) ==
    [op |-> op, user |-> "user", pk |-> 0, code |-> 403,
     body |-> [detail |-> "You do not have permission to perform this action."]]

\* GET /api/products/ : the cached data when the entry is present, else the
\* serialized table, which is put in the cache
product_list ==
    /\ IF cache_get(cache) # <<>>
       THEN /\ response' = [op |-> "product_list", user |-> "any", pk |-> 0, code |-> 200,
                            body |-> [data |-> cache_get(cache)[1]]]
            /\ UNCHANGED cache
       ELSE /\ response' = [op |-> "product_list", user |-> "any", pk |-> 0, code |-> 200,
                            body |-> [data |-> product_data(products)]]
            /\ cache' = cache_set(cache, product_data(products))
    /\ UNCHANGED <<products, nextProductId>>
    /\ UNCHANGED <<formulas, items, nextFormulaId, nextItemId>>
    /\ UNCHANGED <<classifyVars, inflight>>

\* POST /api/products/ : super().create() saves the row, which runs the
\* receiver of post_save, then the view deletes the cache entry
product_create(is_staff, name) ==
    /\ IF ~is_staff
       THEN /\ response' = FORBIDDEN("product_create")
            /\ UNCHANGED productVars
       ELSE /\ products' = products \cup {[id |-> nextProductId, name |-> name]}
            /\ nextProductId' = nextProductId + 1
            /\ cache' = cache_delete(clear_product_cache_on_save(cache))
            /\ response' = [op |-> "product_create", user |-> "admin", pk |-> nextProductId,
                            code |-> 201, body |-> [id |-> nextProductId, name |-> name]]
    /\ UNCHANGED <<formulas, items, nextFormulaId, nextItemId>>
    /\ UNCHANGED <<classifyVars, inflight>>

\* PATCH /api/products/{id}/ : a missing row is a 404 raised inside
\* super().update(), before the view's cache.delete
product_update(is_staff, pk, name) ==
    /\ IF ~is_staff
       THEN /\ response' = FORBIDDEN("product_update")
            /\ UNCHANGED productVars
       ELSE IF ~\E p \in products : p.id = pk
       THEN /\ response' = [op |-> "product_update", user |-> "admin", pk |-> pk, code |-> 404,
                            body |-> [detail |-> "Not found."]]
            /\ UNCHANGED productVars
       ELSE /\ products' = {IF p.id = pk THEN [p EXCEPT !.name = name] ELSE p : p \in products}
            /\ cache' = cache_delete(clear_product_cache_on_save(cache))
            /\ response' = [op |-> "product_update", user |-> "admin", pk |-> pk, code |-> 200,
                            body |-> [id |-> pk, name |-> name]]
            /\ UNCHANGED nextProductId
    /\ UNCHANGED <<formulas, items, nextFormulaId, nextItemId>>
    /\ UNCHANGED <<classifyVars, inflight>>

\* DELETE /api/products/{id}/
product_destroy(is_staff, pk) ==
    /\ IF ~is_staff
       THEN /\ response' = FORBIDDEN("product_destroy")
            /\ UNCHANGED productVars
       ELSE IF ~\E p \in products : p.id = pk
       THEN /\ response' = [op |-> "product_destroy", user |-> "admin", pk |-> pk, code |-> 404,
                            body |-> [detail |-> "Not found."]]
            /\ UNCHANGED productVars
       ELSE /\ products' = {p \in products : p.id # pk}
            /\ cache' = cache_delete(clear_product_cache_on_delete(cache))
            /\ response' = [op |-> "product_destroy", user |-> "admin", pk |-> pk, code |-> 204,
                            body |-> [none |-> TRUE]]
            /\ UNCHANGED nextProductId
    /\ UNCHANGED <<formulas, items, nextFormulaId, nextItemId>>
    /\ UNCHANGED <<classifyVars, inflight>>

\* Product.objects.create(...) outside the API: the row is saved and the
\* receiver of post_save runs
Product_objects_create(name) ==
    /\ products' = products \cup {[id |-> nextProductId, name |-> name]}
    /\ nextProductId' = nextProductId + 1
    /\ cache' = clear_product_cache_on_save(cache)
    /\ response' = [op |-> "Product.objects.create", user |-> "none", pk |-> nextProductId,
                    code |-> 0, body |-> [id |-> nextProductId, name |-> name]]
    /\ UNCHANGED <<formulas, items, nextFormulaId, nextItemId>>
    /\ UNCHANGED <<classifyVars, inflight>>

\* product.save() of a changed row outside the API
Product_save(pk, name) ==
    /\ \E p \in products : p.id = pk
    /\ products' = {IF p.id = pk THEN [p EXCEPT !.name = name] ELSE p : p \in products}
    /\ cache' = clear_product_cache_on_save(cache)
    /\ response' = [op |-> "Product.save", user |-> "none", pk |-> pk, code |-> 0,
                    body |-> [id |-> pk, name |-> name]]
    /\ UNCHANGED nextProductId
    /\ UNCHANGED <<formulas, items, nextFormulaId, nextItemId>>
    /\ UNCHANGED <<classifyVars, inflight>>

\* product.delete() outside the API: the receiver of post_delete runs
Product_delete(pk) ==
    /\ \E p \in products : p.id = pk
    /\ products' = {p \in products : p.id # pk}
    /\ cache' = clear_product_cache_on_delete(cache)
    /\ response' = [op |-> "Product.delete", user |-> "none", pk |-> pk, code |-> 0,
                    body |-> [none |-> TRUE]]
    /\ UNCHANGED nextProductId
    /\ UNCHANGED <<formulas, items, nextFormulaId, nextItemId>>
    /\ UNCHANGED <<classifyVars, inflight>>

\* the entry reaches its timeout of 24 hours
cache_timeout ==
    /\ cache # <<>>
    /\ cache' = <<>>
    /\ UNCHANGED <<products, nextProductId, response>>
    /\ UNCHANGED <<formulas, items, nextFormulaId, nextItemId>>
    /\ UNCHANGED <<classifyVars, inflight>>

----------------------------------------------------------------------------
(* Specifications *)

Init == InitClassify /\ InitApi /\ InitProducts

\* the requests users send for the formulas pks, with bodies item_data for the
\* ingredients ingredient_ids, while fewer than maxItems items have been
\* created; a request with an invalid body is sent for one ingredient
Requests(users, pks, ingredient_ids, item_data, maxItems) ==
    \/ \E user \in users, pk \in pks : destroy(user, pk)
    \/ \E user \in users : list(user)
    \/ \E user \in users, pk \in pks, ingredient_id \in ingredient_ids \cup MissingIngredientIds,
          data \in item_data :
            /\ nextItemId <= maxItems
            /\ add_ingredient(user, pk, ingredient_id, data)
    \/ \E user \in users, pk \in pks, data \in InvalidItemData :
            /\ nextItemId <= maxItems
            /\ add_ingredient(user, pk, 1, data)
    \/ \E user \in users, pk \in pks, item_id \in 1..maxItems : remove_ingredient(user, pk, item_id)
    \/ \E user \in users, pk \in pks : check_compliance_view(user, pk)
    \/ \E user \in users, pk \in pks : compliance_summary(user, pk)

\* the other requests for the formulas pks: the detail view, updates, copies
\* and exports, while a copy stays within maxFormulas formulas and maxItems items
DetailRequests(users, pks, formula_data, update_data, maxItems, maxFormulas) ==
    \/ \E user \in users, pk \in pks : retrieve(user, pk)
    \/ \E user \in users, pk \in pks, data \in formula_data : update(user, pk, data)
    \/ \E user \in users, pk \in pks, item_id \in 1..maxItems, data \in update_data :
            update_ingredient(user, pk, item_id, data)
    \/ \E user \in users, pk \in pks :
            /\ nextFormulaId <= maxFormulas
            /\ nextItemId + items_count(pk) - 1 <= maxItems
            /\ duplicate(user, pk)
    \/ \E kind \in ExportKinds, user \in users, pk \in pks, generated \in BOOLEAN :
            export(kind, user, pk, generated)

\* the inputs of the formula API when every user and every formula is looked
\* at: a SAFE and a RISK ingredient, one body of add_ingredient, and the bodies
\* of update_ingredient that change the dose or the ingredient or are invalid
ApiIngredientIds == {1, 3}

ApiItemData == {data \in ItemData : data.dose_unit = "mg"}

ApiFormulaData == {data \in FormulaData : "region" \in DOMAIN data}

ApiUpdateData ==
    {data \in UpdateData :
        /\ "order" \notin DOMAIN data
        /\ "ingredient_id" \in DOMAIN data =>
              data.ingredient_id \in ApiIngredientIds \cup MissingIngredientIds}

\* the formula API: every user, every formula
Next ==
    \/ \E user \in Users : nextFormulaId <= MaxFormulaId /\ create(user)
    \/ Requests(Users, Pks, ApiIngredientIds, ApiItemData, MaxItemId)
    \/ DetailRequests(Users, Pks, ApiFormulaData, ApiUpdateData, MaxItemId, MaxFormulaId)

Spec == Init /\ [][Next]_vars

\* one formula and the requests of its owner
InitFormula ==
    /\ InitClassify
    /\ InitProducts
    /\ formulas = {[id |-> 1, owner |-> "testuser", region |-> "US", description |-> ""]}
    /\ items = {}
    /\ nextFormulaId = 2
    /\ nextItemId = 1
    /\ response = [op |-> "create", user |-> "testuser", pk |-> 1, code |-> 201,
                   body |-> [id |-> 1, owner_username |-> "testuser"]]
    /\ inflight = [r \in RequestIds |-> Idle]

NextFormula == Requests({"testuser"}, {1}, IngredientIds, ItemData, MaxFormulaItems)

SpecFormula == InitFormula /\ [][NextFormula]_vars

\* one formula that its owner fills, updates and copies
NextCopy ==
    \/ \E ingredient_id \in IngredientIds, data \in ItemData :
            /\ nextItemId <= MaxCopyItems
            /\ add_ingredient("testuser", 1, ingredient_id, data)
    \/ \E data \in FormulaData : update("testuser", 1, data)
    \/ /\ nextFormulaId <= MaxCopyFormulaId
       /\ nextItemId + items_count(1) - 1 <= MaxCopyItems
       /\ duplicate("testuser", 1)

SpecCopy == InitFormula /\ [][NextCopy]_vars

\* one formula whose items its owner adds, updates and removes, and checks
NextEdit ==
    \/ \E ingredient_id \in IngredientIds, data \in ApiItemData :
            /\ nextItemId <= MaxEditItems
            /\ add_ingredient("testuser", 1, ingredient_id, data)
    \/ \E item_id \in 1..MaxEditItems, data \in UpdateData :
            update_ingredient("testuser", 1, item_id, data)
    \/ \E item_id \in 1..MaxEditItems + 1 : remove_ingredient("testuser", 1, item_id)
    \/ check_compliance_view("testuser", 1)

SpecEdit == InitFormula /\ [][NextEdit]_vars

\* one formula whose rows are written through the ORM, and its detail view
NextWeight ==
    \/ \E ingredient_id \in IngredientIds, data \in WeightData :
            /\ nextItemId <= MaxWeightItems
            /\ objects_create(1, ingredient_id, data)
    \/ retrieve("testuser", 1)

SpecWeight == InitFormula /\ [][NextWeight]_vars

\* the product catalog: requests of staff and other users, writes outside the
\* API, and the cache entry's timeout
NextProducts ==
    \/ product_list
    \/ \E is_staff \in Staff, name \in ProductNames :
            nextProductId <= MaxProductId /\ product_create(is_staff, name)
    \/ \E is_staff \in Staff, pk \in 1..MaxProductId, name \in ProductNames :
            product_update(is_staff, pk, name)
    \/ \E is_staff \in Staff, pk \in 1..MaxProductId : product_destroy(is_staff, pk)
    \/ \E name \in ProductNames :
            nextProductId <= MaxProductId /\ Product_objects_create(name)
    \/ \E pk \in 1..MaxProductId, name \in ProductNames : Product_save(pk, name)
    \/ \E pk \in 1..MaxProductId : Product_delete(pk)
    \/ cache_timeout

SpecProducts == Init /\ [][NextProducts]_vars

\* the classification of safety texts as they are typed
NextClassify ==
    \/ \E frag \in Fragments : EditSafety(frag)
    \/ ReadSafetyLevel

SpecClassify == Init /\ [][NextClassify]_vars

\* the issue texts of ingredients whose safety texts are typed
NextIssueText ==
    \/ \E frag \in Fragments : EditSafety(frag)
    \/ ReadSafetyLevel
    \/ ReadIssueText

SpecIssueText == Init /\ [][NextIssueText]_vars


\* the safety text of one ingredient is typed, and the catalog is listed
NextListing ==
    \/ \E frag \in ListingFragments : EditSafety(frag)
    \/ \E exclude_risk \in BOOLEAN, folds_kelvin \in BOOLEAN :
            ingredient_list(exclude_risk, folds_kelvin)

SpecListing == Init /\ [][NextListing]_vars


\* add_ingredient requests of the owner of one formula, handled at the same time
NextRace ==
    \/ \E r \in RequestIds, pk \in {1, 2}, ingredient_id \in ApiIngredientIds \cup MissingIngredientIds :
            \E data \in ApiItemData : add_ingredient_check(r, "testuser", pk, ingredient_id, data)
    \/ \E r \in RequestIds : add_ingredient_save(r)

SpecRace == InitFormula /\ [][NextRace]_vars

----------------------------------------------------------------------------
(* Properties of the classification (SpecClassify) *)

\* two characters that differ in case at most
SameLetter(a, b) ==
    \/ a = b
    \/ a \in DOMAIN UpperCase /\ UpperCase[a] = b
    \/ b \in DOMAIN UpperCase /\ UpperCase[b] = a

\* word occurs in text at some position, compared letter by letter without case
ContainsIgnoringCase(text, word) ==
    \E i \in 1..Len(text) :
        /\ i + Len(word) - 1 <= Len(text)
        /\ \A k \in 1..Len(word) : SameLetter(text[i + k - 1], word[k])

SafeKeywords == { <<"g","e","n","e","r","a","l"," ","d","i","e","t","a","r","y"," ","u","s","e">> }

CautionKeywords == {
    <<"c","a","u","t","i","o","n">>,
    <<"t","o","p","i","c","a","l">>,
    <<"e","x","t","e","r","n","a","l">>,
    <<"p","r","o","c","e","s","s","i","n","g"," ","r","e","q","u","i","r","e","d">>,
    <<"a","l","k","a","l","o","i","d","s">> }

RiskKeywords == {
    <<"r","e","s","t","r","i","c","t","e","d">>,
    <<"c","o","n","t","r","o","l","l","e","d">>,
    <<"h","i","g","h","-","r","i","s","k">> }

HasKeyword(text, keywords) == \E word \in keywords : ContainsIgnoringCase(text, word)

\* C1: a safety text that contains "general dietary use", in any case, is
\* classified SAFE, whatever CAUTION or RISK keywords it also contains
C1_SafeKeywordWins ==
    (level # "NONE" /\ HasKeyword(safety, SafeKeywords)) => level = "SAFE"

\* a text with the SAFE keyword and a CAUTION or RISK keyword has been classified
C1_Witness ==
    /\ level = "SAFE"
    /\ HasKeyword(safety, CautionKeywords) \/ HasKeyword(safety, RiskKeywords)

\* C2: a safety text without "general dietary use" that contains a CAUTION
\* keyword is classified CAUTION, also when it contains a RISK keyword
C2_CautionBeforeRisk ==
    (level # "NONE" /\ ~HasKeyword(safety, SafeKeywords) /\ HasKeyword(safety, CautionKeywords))
        => level = "CAUTION"

\* a text with a CAUTION and a RISK keyword has been classified
C2_Witness ==
    /\ level = "CAUTION"
    /\ HasKeyword(safety, RiskKeywords)

\* C3: every safety text, the empty one included, is classified as one of the
\* four levels: RISK when it contains a RISK keyword and no SAFE or CAUTION
\* keyword, UNKNOWN exactly when it contains no keyword at all
C3_ClassificationTotal ==
    level # "NONE" =>
        /\ level \in Levels
        /\ (/\ HasKeyword(safety, RiskKeywords)
            /\ ~HasKeyword(safety, SafeKeywords)
            /\ ~HasKeyword(safety, CautionKeywords)) => level = "RISK"
        /\ level = "UNKNOWN" <=>
              ~(\/ HasKeyword(safety, SafeKeywords)
                \/ HasKeyword(safety, CautionKeywords)
                \/ HasKeyword(safety, RiskKeywords))

\* the empty text has been classified
C3_Witness ==
    /\ safety = <<>>
    /\ level = "UNKNOWN"

----------------------------------------------------------------------------
(* Properties of the compliance evaluation (SpecFormula) *)

\* the items of a formula whose ingredient is classified at one of the levels
ItemsAt(fid, levels) == {it \in ItemsOf(fid) : IngredientLevel[it.ingredient] \in levels}

\* the last response is a verdict of the check_compliance endpoint
FullVerdict == response.op = "check_compliance" /\ response.code = 200

\* the status of result r follows the precedence RISK, CAUTION, else APPROVED
\* over the items of formula fid
StatusByPrecedence(r, fid) ==
    LET anyRisk == ItemsAt(fid, {"RISK"}) # {}
        anyCaution == ItemsAt(fid, {"CAUTION"}) # {}
    IN  /\ (r.status = "STOP" /\ ~r.can_proceed) <=> anyRisk
        /\ (r.status = "WARNING" /\ r.can_proceed) <=> (~anyRisk /\ anyCaution)
        /\ (r.status = "APPROVED" /\ r.can_proceed) <=> (~anyRisk /\ ~anyCaution)
        /\ r.can_proceed <=> r.status # "STOP"

\* C4: the full evaluator's status is STOP with can_proceed false iff an item is
\* RISK, else WARNING with can_proceed true iff an item is CAUTION, else
\* APPROVED with can_proceed true; can_proceed is false exactly for STOP
C4_StatusByPrecedence ==
    /\ \A fm \in formulas : StatusByPrecedence(check_compliance(fm.id), fm.id)
    /\ FullVerdict => StatusByPrecedence(response.body.result, response.pk)

\* the endpoint has returned STOP for a formula with a RISK and a CAUTION item
C4_Witness ==
    /\ FullVerdict
    /\ response.body.result.status = "STOP"
    /\ ItemsAt(response.pk, {"RISK"}) # {}
    /\ ItemsAt(response.pk, {"CAUTION"}) # {}

\* C5: in every compliance result the three counts of the summary add up to
\* total_ingredients
C5_CountsAddUp ==
    FullVerdict =>
        LET r == response.body.result
        IN  r.summary.safe + r.summary.caution + r.summary.risk = r.total_ingredients

\* C6: the summary's safe count is the number of items whose level is SAFE or
\* UNKNOWN
C6_UnknownCountedSafe ==
    /\ FullVerdict =>
         response.body.result.summary.safe
            = Cardinality(ItemsAt(response.pk, {"SAFE", "UNKNOWN"}))
    /\ (response.op = "compliance_summary" /\ response.code = 200) =>
         response.body.summary.safe
            = Cardinality(ItemsAt(response.pk, {"SAFE", "UNKNOWN"}))

\* the issues of result r are one per CAUTION or RISK item of formula fid and
\* none for another item, each with its ingredient's level as severity
IssuesMatchItems(r, fid) ==
    LET issuesOf(ingredient_id) ==
            {k \in 1..Len(r.issues) : r.issues[k].ingredient_id = ingredient_id}
    IN  /\ \A it \in ItemsAt(fid, {"CAUTION", "RISK"}) :
              Cardinality(issuesOf(it.ingredient)) = 1
        /\ \A it \in ItemsAt(fid, {"SAFE", "UNKNOWN"}) : issuesOf(it.ingredient) = {}
        /\ \A k \in 1..Len(r.issues) :
              /\ \E it \in ItemsOf(fid) : it.ingredient = r.issues[k].ingredient_id
              /\ r.issues[k].severity = IngredientLevel[r.issues[k].ingredient_id]
              /\ r.issues[k].severity \in {"CAUTION", "RISK"}
        /\ Len(r.issues) = r.summary.caution + r.summary.risk

\* C7: the issue list holds exactly one issue per CAUTION or RISK item and none
\* for a SAFE or UNKNOWN item; an issue's severity is its ingredient's level,
\* and the number of issues is summary.caution + summary.risk
C7_IssuesMatchItems ==
    /\ \A fm \in formulas : IssuesMatchItems(check_compliance(fm.id), fm.id)
    /\ FullVerdict => IssuesMatchItems(response.body.result, response.pk)

\* the endpoint has returned two issues for a formula that also holds a SAFE
\* and an UNKNOWN item
C7_Witness ==
    /\ FullVerdict
    /\ Len(response.body.result.issues) = 2
    /\ ItemsAt(response.pk, {"SAFE"}) # {}
    /\ ItemsAt(response.pk, {"UNKNOWN"}) # {}

\* C8: for a formula with at least one item, the status of the list view's
\* badge is the status of the full evaluator, whatever the order of the items
C8_BadgeAgreesWithFull ==
    response.op = "list" =>
        \A entry \in response.body.results :
            entry.item_count > 0 =>
                entry.compliance_status.status = check_compliance(entry.id).status

\* the list view has returned STOP for a formula whose first item is CAUTION
C8_Witness ==
    /\ response.op = "list"
    /\ \E entry \in response.body.results :
          /\ entry.compliance_status.status = "STOP"
          /\ IngredientLevel[items_all(entry.id)[1].ingredient] = "CAUTION"

\* C9: for a formula with at least one item, compliance_summary returns the
\* status, the counts and the total_ingredients of the full evaluator
C9_SummaryAgreesWithFull ==
    (response.op = "compliance_summary" /\ response.code = 200 /\ items_count(response.pk) > 0) =>
        LET full == check_compliance(response.pk)
        IN  /\ response.body.status = full.status
            /\ response.body.summary = full.summary
            /\ response.body.total_ingredients = full.total_ingredients

\* compliance_summary has answered for a formula with an UNKNOWN and a RISK item
C9_Witness ==
    /\ response.op = "compliance_summary"
    /\ response.code = 200
    /\ ItemsAt(response.pk, {"UNKNOWN"}) # {}
    /\ ItemsAt(response.pk, {"RISK"}) # {}

\* C10: for a formula without items check_compliance answers 400 with an error
\* and no verdict, compliance_summary answers EMPTY with zero counts instead of
\* a tally, and neither request changes a table
C10_EmptyFormulaRejected ==
    [][ (/\ response'.op \in {"check_compliance", "compliance_summary"}
         /\ response'.code # 404
         /\ items_count(response'.pk) = 0)
        => /\ UNCHANGED <<formulas, items, nextFormulaId, nextItemId>>
           /\ response'.op = "check_compliance" =>
                 /\ response'.code = 400
                 /\ DOMAIN response'.body = {"error"}
           /\ response'.op = "compliance_summary" =>
                 /\ response'.body.status = "EMPTY"
                 /\ response'.body.summary = [safe |-> 0, caution |-> 0, risk |-> 0]
                 /\ "total_ingredients" \notin DOMAIN response'.body
      ]_vars

\* check_compliance has answered 400 for a formula of the user without items
C10_Witness ==
    /\ response.op = "check_compliance"
    /\ response.code = 400
    /\ Found(response.user, response.pk)
    /\ items_count(response.pk) = 0

----------------------------------------------------------------------------
(* The empty formula at the three call sites (SpecFormula) *)

\* what a call site says about a formula: REJECTED for an error response, else
\* the status it reports
OutcomeOfFull(user, pk) ==
    LET r == check_compliance_response(user, pk)
    IN  IF r.code = 200 THEN r.body.result.status ELSE "REJECTED"

OutcomeOfSummary(pk) == compliance_summary_body(pk).status

OutcomeOfBadge(pk) == get_compliance_status(pk).status

\* the outcome the last response gives for formula pk, NONE when the response is
\* not an answer of one of the three call sites for that formula
OutcomeOfResponse(pk) ==
    IF response.op = "check_compliance" /\ response.pk = pk /\ response.code # 404
    THEN (IF response.code = 200 THEN response.body.result.status ELSE "REJECTED")
    ELSE IF response.op = "compliance_summary" /\ response.pk = pk /\ response.code = 200
    THEN response.body.status
    ELSE IF response.op = "list" /\ (\E entry \in response.body.results : entry.id = pk)
    THEN (CHOOSE entry \in response.body.results : entry.id = pk).compliance_status.status
    ELSE "NONE"

\* C11: for a formula without items the full check, the summary and the badge
\* give the same outcome (all reject it or all report EMPTY), and none of them
\* reports APPROVED, WARNING or STOP
C11_EmptyFormulaConsistent ==
    \A fm \in formulas :
        (items_count(fm.id) = 0 /\ OutcomeOfResponse(fm.id) # "NONE") =>
            /\ OutcomeOfResponse(fm.id) = OutcomeOfFull(fm.owner, fm.id)
            /\ OutcomeOfResponse(fm.id) = OutcomeOfSummary(fm.id)
            /\ OutcomeOfResponse(fm.id) = OutcomeOfBadge(fm.id)
            /\ OutcomeOfResponse(fm.id) \notin {"APPROVED", "WARNING", "STOP"}

----------------------------------------------------------------------------
(* Properties of the total weight (SpecWeight) *)

\* the sum of the doses, in hundredths, of a set of items
RECURSIVE SumDose(_)
SumDose(S) ==
    IF S = {} THEN 0
    ELSE LET it == CHOOSE x \in S : TRUE
         IN  it.dose_value + SumDose(S \ {it})

\* the items of a formula with a given dose unit
ItemsWithUnit(fid, unit) == {it \in ItemsOf(fid) : it.dose_unit = unit}

\* w hundredths of a milligram is the weight of formula fid rounded to two
\* places: 100000 times the weight in mg is 1000 times the doses in mg plus
\* 1000000 times the doses in g plus the doses in mcg, all doses in hundredths,
\* and w is a hundredth nearest to it
IsRoundedWeight(w, fid) ==
    LET exact == 1000 * SumDose(ItemsWithUnit(fid, "mg"))
                    + 1000000 * SumDose(ItemsWithUnit(fid, "g"))
                    + SumDose(ItemsWithUnit(fid, "mcg"))
        diff == 1000 * w - exact
    IN  /\ -500 <= diff /\ diff <= 500
        /\ ItemsOf(fid) = {} => w = 0

\* the last response is the detail view of a formula
DetailView == response.op = "retrieve" /\ response.code = 200

\* C12: the total weight of every formula is the sum of its doses in mg, of
\* 1000 times its doses in g and of a thousandth of its doses in mcg, IU doses
\* left out, rounded to two places; it is 0.00 for a formula without items and
\* 1500.10 for 500 mg + 1 g + 100 mcg
C12_TotalWeight ==
    /\ \A fm \in formulas : IsRoundedWeight(total_weight_mg(fm.id), fm.id)
    /\ DetailView =>
         /\ IsRoundedWeight(response.body.total_weight, response.pk)
         /\ (/\ Cardinality(ItemsOf(response.pk)) = 3
             /\ {<<it.dose_value, it.dose_unit>> : it \in ItemsOf(response.pk)}
                   = {<<50000, "mg">>, <<100, "g">>, <<10000, "mcg">>})
              => response.body.total_weight = 150010

\* the detail view has shown the weight of a formula with an IU dose and a dose
\* in mcg that is rounded up to a hundredth of a milligram
C12_Witness ==
    /\ DetailView
    /\ ItemsWithUnit(response.pk, "IU") # {}
    /\ ItemsWithUnit(response.pk, "mg") # {}
    /\ \E it \in ItemsWithUnit(response.pk, "mcg") : it.dose_value = 600
    /\ response.body.total_weight = 50001

\* C13: when an item's dose unit is none of mg, mcg, g and IU, the total weight
\* is not computed: the detail view of such a formula does not answer with a
\* total weight
C13_UnsupportedUnitFails ==
    (DetailView /\ "total_weight" \in DOMAIN response.body) =>
        \A it \in ItemsOf(response.pk) : it.dose_unit \in UNIT_CHOICES

----------------------------------------------------------------------------
(* Properties of the formula API (Spec, SpecFormula) *)

\* the tables of the formula API
tables == <<formulas, items, nextFormulaId, nextItemId>>

\* C14: after any sequence of create, add_ingredient, update_ingredient,
\* remove_ingredient, duplicate and delete, no formula holds two items with the
\* same ingredient
C14_OneItemPerIngredient ==
    \A a \in items, b \in items :
        (a.formula = b.formula /\ a.ingredient = b.ingredient) => a.id = b.id

\* update_ingredient has tried to give an item the ingredient of another item
\* of the formula and the formula still holds its two items
C14_Witness ==
    /\ response.op = "update_ingredient"
    /\ response.code = 500
    /\ Cardinality(ItemsOf(response.pk)) = 2

\* C15: add_ingredient for an ingredient the formula already holds answers 400,
\* with the error "Ingredient already exists in this formula" when the body is
\* valid, and leaves the items as they were: no item is added and the existing
\* item keeps its dose, unit and notes
C15_DuplicateIngredientRejected ==
    [][ \A user \in Users, pk \in Pks, ingredient_id \in IngredientIds,
           data \in ItemData \cup InvalidItemData :
          (/\ Found(user, pk)
           /\ \E it \in ItemsOf(pk) : it.ingredient = ingredient_id
           /\ add_ingredient(user, pk, ingredient_id, data))
          => /\ response'.op = "add_ingredient"
             /\ response'.code = 400
             /\ data \in ItemData =>
                  response'.body = [error |-> "Ingredient already exists in this formula"]
             /\ items' = items
             /\ nextItemId' = nextItemId
      ]_vars

\* add_ingredient has been refused for an ingredient the formula holds
C15_Witness ==
    /\ response.op = "add_ingredient"
    /\ response.code = 400
    /\ "error" \in DOMAIN response.body
    /\ ItemsOf(response.pk) # {}

\* the requests that address one formula
DetailOps ==
    {"retrieve", "update", "destroy", "add_ingredient", "remove_ingredient",
     "update_ingredient", "duplicate", "check_compliance", "compliance_summary"}
        \cup ExportKinds

\* C16: a user's list holds only formulas the user owns; a request of a user
\* that addresses a formula of another user (retrieve, update, delete,
\* add_ingredient, remove_ingredient, update_ingredient, duplicate,
\* check_compliance, compliance_summary, an export) is answered 404 and changes
\* no formula and no item; a created formula is owned by the user that asked
C16_OwnFormulasOnly ==
    [][ /\ response'.op = "list" =>
              \A entry \in response'.body.results :
                  \E fm \in formulas : fm.id = entry.id /\ fm.owner = response'.user
        /\ (/\ response'.op \in DetailOps
            /\ \E fm \in formulas : fm.id = response'.pk /\ fm.owner # response'.user)
              => /\ response'.code = 404
                 /\ formulas' = formulas
                 /\ items' = items
        /\ (response'.op \in {"create", "duplicate"} /\ response'.code = 201) =>
              \A fm \in formulas' \ formulas : fm.owner = response'.user
      ]_vars

\* a user has asked to add an ingredient to a formula of the other user, which
\* holds an item, and the answer was 404
C16_Witness ==
    /\ response.op = "add_ingredient"
    /\ response.code = 404
    /\ \E fm \in formulas : fm.id = response.pk /\ fm.owner # response.user
    /\ ItemsOf(response.pk) # {}


\* the requests that evaluate the compliance of formulas: the full check, the
\* summary, and the list with its badges
EvaluationOps == {"check_compliance", "compliance_summary", "list"}

\* C17: an evaluation (full check, summary or badge) changes no formula and no
\* item, and an evaluation that follows the same evaluation of the same
\* unchanged formula gives the same answer: status, can_proceed, counts and
\* issues
C17_EvaluationPure ==
    [][ response'.op \in EvaluationOps =>
          /\ UNCHANGED tables
          /\ (/\ response.op = response'.op
              /\ response.user = response'.user
              /\ response.pk = response'.pk) => response' = response
      ]_vars

\* a full check of a formula with a flagged item has been answered
C17_Witness ==
    /\ FullVerdict
    /\ response.body.result.issues # <<>>
    /\ response.body.result = check_compliance(response.pk)

\* C18: every item belongs to exactly one existing formula; deleting a formula
\* deletes its items, so no item outlives its formula
C18_ItemsBelongToFormula ==
    /\ \A it \in items : Cardinality({fm \in formulas : fm.id = it.formula}) = 1
    /\ (response.op = "destroy" /\ response.code = 204) =>
          /\ ~\E fm \in formulas : fm.id = response.pk
          /\ ItemsOf(response.pk) = {}

\* a formula has been deleted after items were created; no item of it is left
\* and the other formula still holds its item
C18_Witness ==
    /\ response.op = "destroy"
    /\ response.code = 204
    /\ nextItemId > MaxItemId
    /\ ItemsOf(response.pk) = {}
    /\ Cardinality(items) = 1

\* the place of the issue of an ingredient in a list of issues
IssueIndex(issues, ingredient_id) ==
    CHOOSE k \in 1..Len(issues) : issues[k].ingredient_id = ingredient_id

\* item a comes before item b in the formula: by order, then by the name of the
\* ingredient
ComesBefore(a, b) ==
    \/ a.order < b.order
    \/ /\ a.order = b.order
       /\ \E i \in 1..Len(NamesAscending), j \in 1..Len(NamesAscending) :
             /\ i < j
             /\ NamesAscending[i] = Ingredient[a.ingredient].name
             /\ NamesAscending[j] = Ingredient[b.ingredient].name

----------------------------------------------------------------------------
(* Properties of the product cache (SpecProducts) *)

\* the writes of a product that have completed: through the API or on the model
ProductWrites ==
    {"product_create", "product_update", "product_destroy",
     "Product.objects.create", "Product.save", "Product.delete"}

\* C19: when a create, update or delete of a product has completed, through
\* the API or on the model, the cache entry of the product list is absent, and
\* a product list is never served from an entry filled before the last change:
\* its data is the table's
C19_CacheClearedOnChange ==
    [][ /\ (response'.op \in ProductWrites /\ response'.code \in {0, 200, 201, 204})
              => cache' = <<>>
        /\ response'.op = "product_list" => response'.body.data = product_data(products')
        /\ cache' # <<>> => cache'[1] = product_data(products')
      ]_vars

\* the product list has been recomputed after a product was renamed, as both
\* products have been created
C19_Witness ==
    /\ response.op = "product_list"
    /\ \E p \in response.body.data : p.name = "Updated Product"
    /\ nextProductId > MaxProductId
    /\ cache # <<>>

----------------------------------------------------------------------------
(* Properties of the issue texts (SpecIssueText) *)

\* the last response is the issue text of the ingredient as it is typed now
IssueTextRead ==
    /\ response.op = "issue_text"
    /\ level # "NONE"
    /\ response.body.safety_info = safety

ExternalKeywords == { <<"t","o","p","i","c","a","l">>, <<"e","x","t","e","r","n","a","l">> }

ProcessingKeywords == {
    <<"a","l","k","a","l","o","i","d","s">>,
    <<"p","r","o","c","e","s","s","i","n","g"," ","r","e","q","u","i","r","e","d">> }

\* C21: the issue of a RISK ingredient always has the fixed regulatory-review
\* message and action; the issue of a CAUTION ingredient has the external-use
\* message when its text contains "topical" or "external", else the
\* special-processing message when it contains "alkaloids" or "processing
\* required", else the generic caution message
C21_IssueTextSelection ==
    (IssueTextRead /\ response.body.severity # "none") =>
        LET text == response.body.text IN
        /\ response.body.severity = level
        /\ level = "RISK" =>
              /\ text.message = <<safety, RISK_MESSAGE>>
              /\ text.action = RISK_ACTION
        /\ level = "CAUTION" =>
              IF HasKeyword(safety, ExternalKeywords)
              THEN /\ text.message = <<safety, EXTERNAL_MESSAGE>>
                   /\ text.action = EXTERNAL_ACTION
              ELSE IF HasKeyword(safety, ProcessingKeywords)
              THEN /\ text.message = <<safety, PROCESSING_MESSAGE>>
                   /\ text.action = PROCESSING_ACTION
              ELSE /\ text.message = <<safety, CAUTION_MESSAGE>>
                   /\ text.action = CAUTION_ACTION

\* the issue text of an ingredient whose text holds an external and a
\* processing keyword has been read
C21_Witness ==
    /\ IssueTextRead
    /\ response.body.severity = "CAUTION"
    /\ HasKeyword(safety, ExternalKeywords)
    /\ HasKeyword(safety, ProcessingKeywords)
    /\ response.body.text.action = EXTERNAL_ACTION

----------------------------------------------------------------------------
(* Properties of the status under changes of the items (SpecFormula) *)

\* the verdict Formula.check_compliance gives for a formula whose items are
\* the rows S: what the claims compare between two evaluations
VerdictOf(S) ==
    LET acc == compliance_loop(Ordered(S), 1,
                   [issues |-> <<>>, risk_count |-> 0, caution_count |-> 0, safe_count |-> 0])
        overall == overall_status(acc.risk_count, acc.caution_count)
    IN  [status |-> overall.status, can_proceed |-> overall.can_proceed, issues |-> acc.issues]

\* the rows of formula fid before and after a step
ItemsBefore(fid) == {it \in items : it.formula = fid}
ItemsAfter(fid) == {it \in items' : it.formula = fid}

\* formula fid gets exactly one new item in this step, none of its items
\* changes, and the new item's ingredient is at one of the levels
ItemAdded(fid, levels) ==
    /\ ItemsBefore(fid) \subseteq ItemsAfter(fid)
    /\ Cardinality(ItemsAfter(fid) \ ItemsBefore(fid)) = 1
    /\ \A it \in ItemsAfter(fid) \ ItemsBefore(fid) : IngredientLevel[it.ingredient] \in levels

\* C22: UNKNOWN never escalates the status: adding an item whose ingredient is
\* UNKNOWN to a formula with items changes neither status, nor can_proceed, nor
\* the issue list, and a formula whose items are all UNKNOWN is APPROVED with
\* can_proceed true and no issues
C22_UnknownNeverEscalates ==
    [][ \A fm \in formulas :
          /\ (ItemsBefore(fm.id) # {} /\ ItemAdded(fm.id, {"UNKNOWN"}))
                => VerdictOf(ItemsAfter(fm.id)) = VerdictOf(ItemsBefore(fm.id))
          /\ (/\ ItemsAfter(fm.id) # {}
              /\ \A it \in ItemsAfter(fm.id) : IngredientLevel[it.ingredient] = "UNKNOWN")
                => VerdictOf(ItemsAfter(fm.id)) = [status |-> "APPROVED", can_proceed |-> TRUE,
                                                   issues |-> <<>>]
      ]_vars

\* an UNKNOWN item has been added to a formula that holds a flagged item
C22_Witness ==
    /\ response.op = "add_ingredient"
    /\ response.code = 201
    /\ IngredientLevel[response.body.item.ingredient] = "UNKNOWN"
    /\ ItemsAt(response.pk, {"CAUTION", "RISK"}) # {}


----------------------------------------------------------------------------
(* Properties of the copy of a formula (SpecCopy) *)

\* what duplicate copies of an item
Copied(it) ==
    [ingredient |-> it.ingredient, dose_value |-> it.dose_value, dose_unit |-> it.dose_unit,
     notes |-> it.notes, order |-> it.order]

\* the total weight of a set of rows
WeightOf(S) == round_2(weight_loop(Ordered(S), 1, 0))

\* this step answered a duplicate request with 201
Duplicated == response'.op = "duplicate" /\ response'.code = 201 /\ formulas' # formulas

\* C23: duplicate creates one new formula, owned by the requester, with the
\* description and region of the original; its items are a copy of the
\* original's items (ingredient, dose value, dose unit, notes and order), so
\* count, total weight and compliance verdict are those of the original; the
\* original formula and every existing item are unchanged
C23_DuplicateCopies ==
    [][ Duplicated =>
          /\ formulas \subseteq formulas'
          /\ items \subseteq items'
          /\ Cardinality(formulas' \ formulas) = 1
          /\ \A new \in formulas' \ formulas, original \in formulas :
                original.id = response'.pk =>
                  /\ new.owner = response'.user
                  /\ new.id \notin {fm.id : fm \in formulas}
                  /\ new.description = original.description
                  /\ new.region = original.region
                  /\ ItemsAfter(original.id) = ItemsBefore(original.id)
                  /\ items' \ items = ItemsAfter(new.id)
                  /\ {Copied(it) : it \in ItemsAfter(new.id)}
                        = {Copied(it) : it \in ItemsBefore(original.id)}
                  /\ Cardinality(ItemsAfter(new.id)) = Cardinality(ItemsBefore(original.id))
                  /\ WeightOf(ItemsAfter(new.id)) = WeightOf(ItemsBefore(original.id))
                  /\ VerdictOf(ItemsAfter(new.id)) = VerdictOf(ItemsBefore(original.id))
      ]_vars

\* a formula with an updated description and region and two items, one of
\* them with notes and an order, has been copied
C23_Witness ==
    /\ response.op = "duplicate" /\ response.code = 201
    /\ \E original \in formulas, new \in formulas :
          /\ original.id = response.pk /\ new.id = response.body.id /\ new.id # original.id
          /\ original.region = "EU" /\ original.description # ""
          /\ Cardinality(ItemsOf(new.id)) = 2
          /\ \E it \in ItemsOf(new.id) : it.order = 1 /\ it.notes # ""
          /\ \E it \in ItemsOf(new.id) : IngredientLevel[it.ingredient] = "RISK"


----------------------------------------------------------------------------
(* Properties of the item requests (SpecEdit, Spec) *)

\* C24: update_ingredient changes only the dose value, the dose unit and the
\* notes of the addressed item: its ingredient, its formula (and its order) and
\* every other item stay as they were; a request that is not applied is
\* answered with 400 or 404 and changes no item
C24_UpdateChangesDoseOnly ==
    [][ response'.op = "update_ingredient" =>
          IF response'.code = 200
          THEN \E old \in items, new \in items' :
                  /\ items' \ {new} = items \ {old}
                  /\ new.id = old.id
                  /\ new.formula = old.formula
                  /\ new.ingredient = old.ingredient
                  /\ new.order = old.order
          ELSE response'.code \in {400, 404} /\ items' = items
      ]_vars


\* C25: remove_ingredient deletes exactly the addressed item when it belongs to
\* the addressed formula and leaves every other item unchanged; when the item
\* id does not exist or belongs to another formula (or the formula is not the
\* requester's) it answers 404 and deletes nothing
C25_RemoveExactlyAddressed ==
    [][ (response'.op = "remove_ingredient" /\ (response' # response \/ items' # items)) =>
          IF "item_id" \in DOMAIN response'
          THEN LET addressed == {it \in items : /\ it.id = response'.item_id
                                                 /\ it.formula = response'.pk}
               IN  IF addressed # {}
                   THEN /\ response'.code = 204
                        /\ Cardinality(addressed) = 1
                        /\ items' = items \ addressed
                   ELSE /\ response'.code = 404
                        /\ items' = items
          ELSE response'.code = 404 /\ items' = items
      ]_vars

\* an item has been removed from a formula on request, and another item is
\* still there
C25_Witness ==
    /\ response.op = "remove_ingredient" /\ response.code = 204
    /\ ~\E it \in items : it.id = response.item_id
    /\ items # {}


----------------------------------------------------------------------------
(* Properties of the ingredient listing (SpecListing) *)

\* C26: the listing requested with exclude_risk=true contains no ingredient
\* whose safety_level is RISK, whatever the safety texts are
C26_ExcludeRiskListsNoRisk ==
    (response.op = "ingredient_list" /\ response.exclude_risk) =>
        \A row \in response.body.results : safety_level(row.safety) # "RISK"


----------------------------------------------------------------------------
(* Properties of the status as the items change (SpecEdit) *)

\* the order APPROVED < WARNING < STOP
StatusRank == ("APPROVED" :> 0) @@ ("WARNING" :> 1) @@ ("STOP" :> 2)

\* status and counts that check_compliance gives for a set of rows
SummaryOf(S) ==
    LET acc == compliance_loop(Ordered(S), 1,
                   [issues |-> <<>>, risk_count |-> 0, caution_count |-> 0, safe_count |-> 0])
    IN  [status |-> overall_status(acc.risk_count, acc.caution_count).status,
         risk |-> acc.risk_count, caution |-> acc.caution_count, safe |-> acc.safe_count,
         total |-> Cardinality(S)]

\* what identifies an item and its ingredient
Reference(it) == [id |-> it.id, formula |-> it.formula, ingredient |-> it.ingredient]

\* C27: the status is monotone in the items: a step that adds an item to a
\* formula with items never lowers the status, a step that removes an item and
\* leaves an item never raises it, and a step that changes only dose, unit,
\* notes or order of an item changes neither the status nor the counts
C27_StatusMonotone ==
    [][ \A fm \in formulas :
          LET before == ItemsBefore(fm.id)
              after == ItemsAfter(fm.id)
          IN  /\ (before # {} /\ before \subseteq after /\ before # after)
                    => StatusRank[SummaryOf(after).status] >= StatusRank[SummaryOf(before).status]
              /\ (after # {} /\ after \subseteq before /\ before # after)
                    => StatusRank[SummaryOf(after).status] <= StatusRank[SummaryOf(before).status]
              /\ (/\ before # after
                  /\ {Reference(it) : it \in after} = {Reference(it) : it \in before})
                    => SummaryOf(after) = SummaryOf(before)
      ]_vars

\* a formula that was at STOP with a RISK and a CAUTION item has lost its RISK
\* item and is at WARNING, as the check_compliance request reports
C27_Witness ==
    /\ response.op = "check_compliance" /\ response.code = 200
    /\ response.body.result.status = "WARNING"
    /\ nextItemId > 2
    /\ \E it \in ItemsOf(response.pk) : it.order = 1 /\ IngredientLevel[it.ingredient] = "CAUTION"
    /\ ~\E it \in ItemsOf(response.pk) : IngredientLevel[it.ingredient] = "RISK"
    /\ \E it \in ItemsOf(response.pk) : it.dose_value = 75000


----------------------------------------------------------------------------
(* Properties of add_ingredient requests handled at the same time (SpecRace) *)

\* C28: when add_ingredient requests for the same formula and ingredient pass
\* the existence check before any of them saves, at most one FormulaItem for
\* the pair exists afterwards, and at most one of the requests is answered 201
C28_RaceCreatesNoDuplicate ==
    /\ \A fm \in formulas, i \in IngredientIds :
          Cardinality({it \in items : it.formula = fm.id /\ it.ingredient = i}) <= 1
    /\ \A r1 \in RequestIds, r2 \in RequestIds :
          (/\ r1 # r2
           /\ inflight[r1].pk = inflight[r2].pk
           /\ inflight[r1].ingredient_id = inflight[r2].ingredient_id
           /\ inflight[r1].code = 201)
             => inflight[r2].code # 201

\* two requests for the same pair had both passed the check; one has saved its
\* item and the other one's save has been refused
C28_Witness ==
    \E r1 \in RequestIds, r2 \in RequestIds :
        /\ inflight[r1].pk = inflight[r2].pk
        /\ inflight[r1].ingredient_id = inflight[r2].ingredient_id
        /\ inflight[r1].code = 201
        /\ inflight[r2].code = 500
        /\ Cardinality({it \in items : /\ it.formula = inflight[r1].pk
                                       /\ it.ingredient = inflight[r1].ingredient_id}) = 1

============================================================================
